---- MODULE Spec2Model ----
(***************************************************************************)
(* Browser-session broker of browser-sessions/server.js (the same store is *)
(* duplicated in neko-browser/neko-proxy.js): the slot table, the session  *)
(* and token maps, the reaper, the asynchronous state-mirror writes and    *)
(* the start-up restore, and the access check of /browser/<N>/...          *)
(*                                                                         *)
(* Every handler of the Node.js process runs to completion between two     *)
(* awaits, so each action below is one handler (or one stretch of an async *)
(* function between two awaits).                                           *)
(***************************************************************************)
EXTENDS Integers, Sequences, FiniteSets, TLC

\* ---------------------------------------------------------------- bounds
\* Number of slots of the pool (the program has 10; the model keeps fewer).
NumBrowsers == 2
\* How many random tokens generateSecureToken may hand out in one run.
MaxTokens == 3
\* How many session ids generateSessionId may hand out in one run.
MaxSessions == 2
\* How many times the clock is seen to advance after boot.
MaxAdvances == 1
\* How many state-mirror writes may be in flight at once.
MaxPending == 2
\* How many reaper periods the punctual clock of SpecClock runs for.
MaxClockSteps == 12
\* How many wrappers a function installed on the page can carry.
MaxLayers == 3
\* How many answers of the server to one call are chosen.
MaxAnswers == 2
\* How many URLs a body handed to the rewriter carries.
MaxUrls == 3
\* How many times the rewriter is applied to a body.
MaxPasses == 2
\* How many characters follow the first / of an encoded URL.
MaxTail == 3
\* How many tags and scripts a document has.
MaxDocLen == 3
\* How many Playwright sessions are created.
MaxPwSessions == 2
\* How far the clock of the Playwright server runs (milliseconds: 33 minutes).
MaxPwTime == 1980000
\* Up to when Playwright sessions are created (milliseconds).
MaxPwCreateAt == 60000
\* How many client sockets of WebSocket tunnels are followed.
MaxSockets == 1
\* How many client sockets of audio subscribers are followed.
MaxAudio == 2
\* How many transcoder processes may be spawned in one run.
MaxProcs == 2

\* ------------------------------------------------------------- constants
SESSION_TIMEOUT_MS == 5 * 60 * 1000
WS_PRESENCE_TIMEOUT_MS == 2 * 60 * 1000
WS_GRACE_MS == 60000
URL_TOKEN_TTL_MS == 5 * 60 * 1000
REAPER_PERIOD_MS == 30 * 1000
URL_GC_PERIOD_MS == 60 * 1000

\* The clock advances by whole ticks (a multiple of the 30 s reaper period and
\* of the 60 s token-GC period), one or two at a time; the process boots at
\* BootTime. One tick is past both WebSocket timeouts and short of the session
\* timeout, two ticks are past every timeout.
Tick == 180 * 1000
BootTime == 2 * Tick

\* null / undefined of a timestamp, a token, a session id or a slot id: all
\* are falsy in the source, as 0 is.
null == 0
\* null of a client id
NoClient == "null"

Slots == 1..NumBrowsers
Clients == {"c1", "c2"}
Tokens == 1..MaxTokens

\* a || b of the source, on values whose falsy element is null
Or(a, b) == IF a # null THEN a ELSE b

VARIABLES
  now,               \* Date.now()
  advances,          \* how many times the clock advanced
  BROWSERS,          \* slot id -> slot record
  sessions,          \* Map sessionId -> {browserId, clientId}, in insertion order
  clientSessions,    \* Map clientId -> browserId (null: no entry)
  activeConnections, \* Map browserId -> {count, lastDisconnect}
  browserTokens,     \* Map browserId -> cookieToken (null: no entry)
  tokenToBrowser,    \* Map cookieToken -> browserId (null: no entry)
  urlTokens,         \* Map urlToken -> {browserId, cookieToken, createdAt}
  nextToken,         \* the next value generateSecureToken returns
  nextSession,       \* the next value generateSessionId returns
  mirror,            \* the external store: nebula/browsers/state/<id>
  pending,           \* mirror writes issued and not yet completed, in order
  restore,           \* position of restoreStateFromFirebase
  last,              \* what the last handler answered / did
  minted,            \* history: url token -> slot it was minted for
  consumed,          \* history: url tokens consumed by an access
  opened,            \* history: url tokens whose browserUrl was opened with success
  issued,            \* history: slot -> cookie tokens installed since it was last free
  revoked,           \* history: cookie tokens of sessions whose slot was released
  wsSockets,         \* client sockets of upgrades to the VNC tunnel
  wsIdleFrom,        \* history: slot -> when its last open tunnel closed
  audioSockets,      \* client sockets of upgrades to /browser/<N>/audio
  audioProcesses,    \* Map audioKey -> ffmpeg process, in insertion order
  ffmpeg,            \* the transcoder processes spawned so far
  audioClock,        \* Date.now() as the audio keys see it (milliseconds)
  sessionBaseUrls,   \* URL-rewriting proxy: Map clientId -> base URL (one client)
  proxy,             \* URL-rewriting proxy: the request being served
  page,              \* a proxied page: what the injected scripts installed on it
  html,              \* a body the server-side rewriter works on
  codec,             \* a URL taken through encodeUrl and decodeUrl
  pw                 \* the Playwright session server: clock, sessions, last answer

\* the WebSocket side of the process
wsVars == <<wsSockets, wsIdleFrom, audioSockets, audioProcesses, ffmpeg, audioClock>>

\* the functions and the processes followed on their own
sideVars == <<codec, pw>>

\* the URL-rewriting proxy without what is followed on its own
urlRewriterVars == <<sessionBaseUrls, proxy, page, html>>

\* the URL-rewriting proxy (a process of its own)
urpVars == <<sessionBaseUrls, proxy, page, html, sideVars>>

vars == <<now, advances, BROWSERS, sessions, clientSessions, activeConnections,
          browserTokens, tokenToBrowser, urlTokens, nextToken, nextSession,
          mirror, pending, restore, last, minted, consumed, opened, issued,
          revoked, wsVars, urpVars>>

\* ------------------------------------------------------------ records
FreeBrowser ==
  [inUse |-> FALSE, lastUsed |-> null, lastHeartbeat |-> null,
   sessionId |-> null, clientId |-> NoClient]

NoConn == [present |-> FALSE, count |-> 0, lastDisconnect |-> null]
NewConn == [present |-> TRUE, count |-> 0, lastDisconnect |-> null]

NoUrlToken == [browserId |-> null, cookieToken |-> null, createdAt |-> null]

\* the mirror's entry of a slot that was never written, or { inUse: false }
Tombstone ==
  [inUse |-> FALSE, clientId |-> NoClient, sessionId |-> null,
   lastUsed |-> null, lastHeartbeat |-> null]

\* a socket id that is not in use
NoSocket == [state |-> "free", id |-> null, authorized |-> FALSE]
\* an audio socket id that is not in use
NoAudioSocket == [state |-> "free", id |-> null, authorized |-> FALSE, proc |-> null]
\* a process id that was not spawned yet
NoProc == [state |-> "none", killed |-> FALSE, id |-> null, stamp |-> null, socket |-> null]

NoResp ==
  [op |-> "none", status |-> 0, browserId |-> null, urlToken |-> null,
   setCookie |-> null, released |-> {}, body |-> null]

\* the value syncBrowserToFirebase writes for a slot record
MirrorValue(b) ==
  [inUse |-> b.inUse, clientId |-> b.clientId, sessionId |-> b.sessionId,
   lastUsed |-> b.lastUsed, lastHeartbeat |-> b.lastHeartbeat]

\* syncBrowserToFirebase(browser): one write in flight; awaitedByRestore
\* marks the tombstone write restoreStateFromFirebase awaits.
SyncWrite(id, b) == [id |-> id, value |-> MirrorValue(b), awaitedByRestore |-> FALSE]

\* ------------------------------------------------------------ the mirror
\* What a previous run of the process can have left in the mirror: each slot
\* free, or held by a client (a different client per slot) with a session id of
\* that run (written -id here: never equal to an id of this run) and a
\* heartbeat one tick before boot.
SavedEntry(id, c) ==
  [inUse |-> TRUE, clientId |-> c, sessionId |-> 0 - id,
   lastUsed |-> BootTime - Tick, lastHeartbeat |-> BootTime - Tick]

SavedStates ==
  { m \in [Slots -> {Tombstone} \cup { SavedEntry(id, c) : id \in Slots, c \in Clients }] :
      /\ \A id \in Slots : m[id].inUse => m[id].sessionId = 0 - id
      /\ \A i, j \in Slots : (i # j /\ m[i].inUse /\ m[j].inUse) => m[i].clientId # m[j].clientId
      \* up to the names of the clients
      /\ m[1].inUse => m[1].clientId = "c1"
      /\ (~m[1].inUse /\ NumBrowsers > 1 /\ m[2].inUse) => m[2].clientId = "c2" }

\* an entry whose heartbeat is a full session timeout before boot
StaleSavedEntry(id, c) ==
  [inUse |-> TRUE, clientId |-> c, sessionId |-> 0 - id,
   lastUsed |-> BootTime - SESSION_TIMEOUT_MS,
   lastHeartbeat |-> BootTime - SESSION_TIMEOUT_MS]

\* The mirrors of a previous run with entries of both ages: each slot free,
\* or held by a client (a different client per slot) with a live or a stale
\* heartbeat.
AgedSavedStates ==
  { m \in [Slots -> {Tombstone}
                      \cup { SavedEntry(id, c) : id \in Slots, c \in Clients }
                      \cup { StaleSavedEntry(id, c) : id \in Slots, c \in Clients }] :
      /\ \A id \in Slots : m[id].inUse => m[id].sessionId = 0 - id
      /\ \A i, j \in Slots : (i # j /\ m[i].inUse /\ m[j].inUse) => m[i].clientId # m[j].clientId
      \* up to the names of the clients
      /\ m[1].inUse => m[1].clientId = "c1"
      /\ (~m[1].inUse /\ NumBrowsers > 1 /\ m[2].inUse) => m[2].clientId = "c2" }

\* the state of the session broker
nebulaVars == <<now, advances, BROWSERS, sessions, clientSessions, activeConnections,
                browserTokens, tokenToBrowser, urlTokens, nextToken, nextSession,
                mirror, pending, restore, last, minted, consumed, opened, issued,
                revoked, wsVars>>

\* ============================================== the injected client scripts
\* A function installed on the page is written as the chain of wrappers a
\* call goes through, outermost first, down to the browser's own function:
\* <<"proxy", "native">> is the early script's proxyFetch over native fetch.
NativeFn == <<"native">>

\* how many wrappers of one kind a chain has
layers(f, name) == Cardinality({ k \in 1..Len(f) : f[k] = name })

\* no call made yet
NoCall == [api |-> "none", method |-> "", viaInit |-> FALSE, answers |-> << >>, sends |-> 0]

\* the page before any script ran
InitPage ==
  /\ page = [fetch      |-> [accessor |-> FALSE, value |-> NativeFn],
             trueNative |-> << >>,
             xhrOpen    |-> [writable |-> TRUE, value |-> NativeFn],
             xhrSend    |-> NativeFn,
             assigned   |-> << >>,
             early      |-> 0,
             main       |-> 0,
             call       |-> NoCall]

\* window.fetch = f: the setter of the early script, when it is installed,
\* drops f and installs a wrapper that calls TRUE_NATIVE_FETCH
fetchAfterAssign(f) ==
  IF page.fetch.accessor
  THEN [accessor |-> TRUE, value |-> <<"proxy">> \o page.trueNative]
  ELSE [accessor |-> FALSE, value |-> f]

\* XMLHttpRequest.prototype.open = f, in a script that is not strict: no
\* effect on a property that is not writable
xhrOpenAfterAssign(f) ==
  IF page.xhrOpen.writable THEN [page.xhrOpen EXCEPT !.value = f] ELSE page.xhrOpen

\* the early script (earlySpoof) runs, a second time on a page that carries
\* it twice
InjectEarly ==
  LET TRUE_NATIVE_FETCH == page.fetch.value
      XHROpen == page.xhrOpen.value
  IN
  \* inserted right after <head>: it runs before the main script and
  \* before the scripts of the site
  /\ page.main = 0
  /\ layers(page.fetch.value, "site") = 0
  /\ Len(TRUE_NATIVE_FETCH) <= MaxLayers
  /\ Len(XHROpen) <= MaxLayers
  /\ page' = [page EXCEPT
                !.trueNative = TRUE_NATIVE_FETCH,
                !.fetch = [accessor |-> TRUE, value |-> <<"proxy">> \o TRUE_NATIVE_FETCH],
                !.xhrOpen = [writable |-> FALSE, value |-> <<"earlyOpen">> \o XHROpen],
                !.assigned = << >>,
                !.early = page.early + 1,
                !.call = NoCall]
  /\ UNCHANGED <<nebulaVars, sessionBaseUrls, proxy, html, sideVars>>

\* the main script (interceptorScript) runs
InjectMain ==
  LET origFetch == page.fetch.value
      origOpen == page.xhrOpen.value
      origSend == page.xhrSend
  IN
  /\ Len(origFetch) <= MaxLayers
  /\ Len(origOpen) <= MaxLayers
  /\ Len(origSend) <= MaxLayers
  /\ page' = [page EXCEPT
                !.fetch = fetchAfterAssign(<<"main">> \o origFetch),
                !.assigned = <<"main">> \o origFetch,
                !.xhrOpen = xhrOpenAfterAssign(<<"mainOpen">> \o origOpen),
                !.xhrSend = <<"mainSend">> \o origSend,
                !.main = page.main + 1,
                !.call = NoCall]
  /\ UNCHANGED <<nebulaVars, sessionBaseUrls, proxy, html, sideVars>>

\* a script of the site wraps fetch: window.fetch = wrapper over window.fetch
SiteAssignsFetch ==
  LET f == <<"site">> \o page.fetch.value IN
  /\ Len(page.fetch.value) <= MaxLayers
  /\ page' = [page EXCEPT !.fetch = fetchAfterAssign(f), !.assigned = f, !.call = NoCall]
  /\ UNCHANGED <<nebulaVars, sessionBaseUrls, proxy, html, sideVars>>

\* The answers of the server to the sends of one call, in order: 200, 403
\* with a fresh x-csrf-token, 403 with a token and a challenge marker, 403
\* without token. After the last one the server answers 200.
Answers == {"200", "403T", "403TC", "403"}
AnswerScripts == UNION { [1..n -> Answers] : n \in 1..MaxAnswers }
answerAt(answers, i) == IF i <= Len(answers) THEN answers[i] ELSE "200"

\* A call of the fetch chain f whose first send is send number i: the
\* response it resolves with and the number of the next send. The main
\* wrapper calls origFetch again, once, on 403 with a token and no challenge
\* when init.method is set and is not GET.
RECURSIVE fetchThrough(_, _, _, _)
fetchThrough(f, i, retryable, answers) ==
  IF Head(f) = "native" THEN [resp |-> answerAt(answers, i), next |-> i + 1]
  ELSE IF Head(f) = "main"
  THEN LET r1 == fetchThrough(Tail(f), i, retryable, answers) IN
       IF r1.resp = "403T" /\ retryable
       THEN fetchThrough(Tail(f), r1.next, retryable, answers)
       ELSE r1
  ELSE fetchThrough(Tail(f), i, retryable, answers)

\* The sends of xhr.send() from send number i on: the main send wrapper, on
\* 403 with a token and no challenge for a method (recorded by the main open
\* wrapper, GET when it was not) other than GET, sends a new XMLHttpRequest
\* through the same wrappers.
RECURSIVE xhrSends(_, _, _)
xhrSends(i, retryable, answers) ==
  IF retryable /\ answerAt(answers, i) = "403T"
  THEN 1 + xhrSends(i + 1, retryable, answers)
  ELSE 1

\* fetch(url, {method: ...}) (viaInit) or fetch(new Request(url, {method: ...}))
FetchCall(method, viaInit, answers) ==
  LET r == fetchThrough(page.fetch.value, 1, viaInit /\ method # "GET", answers) IN
  /\ page.early + page.main > 0
  /\ page' = [page EXCEPT !.call = [api |-> "fetch", method |-> method, viaInit |-> viaInit,
                                    answers |-> answers, sends |-> r.next - 1]]
  /\ UNCHANGED <<nebulaVars, sessionBaseUrls, proxy, html, sideVars>>

\* xhr.open(method, url); xhr.send(body)
XhrCall(method, answers) ==
  LET recorded == IF layers(page.xhrOpen.value, "mainOpen") > 0 THEN method ELSE "GET"
      retryable == layers(page.xhrSend, "mainSend") > 0 /\ recorded # "GET"
  IN
  /\ page.early + page.main > 0
  /\ page' = [page EXCEPT !.call = [api |-> "xhr", method |-> method, viaInit |-> TRUE,
                                    answers |-> answers,
                                    sends |-> xhrSends(1, retryable, answers)]]
  /\ UNCHANGED <<nebulaVars, sessionBaseUrls, proxy, html, sideVars>>

NextShim ==
  \/ InjectEarly
  \/ InjectMain
  \/ SiteAssignsFetch
  \/ \E method \in {"GET", "POST"}, viaInit \in BOOLEAN, answers \in AnswerScripts :
       FetchCall(method, viaInit, answers)
  \/ \E method \in {"GET", "POST"}, answers \in AnswerScripts : XhrCall(method, answers)

\* ========================================================= the __cpo codec
\* Text is a sequence of characters; the characters a URL is drawn from and
\* their UTF-8 bytes (Buffer.from(url))
Utf8 ==
  [c \in {"h", "t", "p", "s", ":", "/", "H", "T", "P", "a", "?", ">", "e'"} |->
     CASE c = "h" -> <<104>>  [] c = "t" -> <<116>>  [] c = "p" -> <<112>>
       [] c = "s" -> <<115>>  [] c = ":" -> <<58>>   [] c = "/" -> <<47>>
       [] c = "H" -> <<72>>   [] c = "T" -> <<84>>   [] c = "P" -> <<80>>
       [] c = "a" -> <<97>>   [] c = "?" -> <<63>>   [] c = ">" -> <<62>>
       [] c = "e'" -> <<195, 169>>]
UrlChars == DOMAIN Utf8

\* what toString('utf-8') gives for bytes that are no character
ReplacementChar == "U+FFFD"

\* base64 text is a sequence of numbers: 0..63 are the characters of the
\* standard alphabet in order ('+' is 62 and '/' is 63), then '=', '-', '_'
B64_PLUS == 62
B64_SLASH == 63
B64_PAD == 64
B64_MINUS == 65
B64_UNDERSCORE == 66

RECURSIVE toBytes(_)
toBytes(text) == IF text = << >> THEN << >> ELSE Utf8[Head(text)] \o toBytes(Tail(text))

\* Buffer.toString('base64')
RECURSIVE toBase64(_)
toBase64(bytes) ==
  IF bytes = << >> THEN << >>
  ELSE IF Len(bytes) = 1
  THEN <<bytes[1] \div 4, (bytes[1] % 4) * 16, B64_PAD, B64_PAD>>
  ELSE IF Len(bytes) = 2
  THEN <<bytes[1] \div 4, (bytes[1] % 4) * 16 + bytes[2] \div 16,
         (bytes[2] % 16) * 4, B64_PAD>>
  ELSE <<bytes[1] \div 4, (bytes[1] % 4) * 16 + bytes[2] \div 16,
         (bytes[2] % 16) * 4 + bytes[3] \div 64, bytes[3] % 64>>
       \o toBase64(SubSeq(bytes, 4, Len(bytes)))

\* Buffer.from(text, 'base64'): the bytes up to the padding
RECURSIVE fromBase64(_)
fromBase64(b64) ==
  IF Len(b64) < 2 \/ b64[1] = B64_PAD \/ b64[2] = B64_PAD THEN << >>
  ELSE LET b1 == b64[1] * 4 + b64[2] \div 16 IN
       IF Len(b64) < 3 \/ b64[3] = B64_PAD THEN <<b1>>
       ELSE LET b2 == (b64[2] % 16) * 16 + b64[3] \div 4 IN
            IF Len(b64) < 4 \/ b64[4] = B64_PAD THEN <<b1, b2>>
            ELSE <<b1, b2, (b64[3] % 4) * 64 + b64[4]>>
                 \o fromBase64(SubSeq(b64, 5, Len(b64)))

\* String.replace(/x/g, y) on base64 text
replaceAll(b64, x, y) == [k \in 1..Len(b64) |-> IF b64[k] = x THEN y ELSE b64[k]]
\* String.replace(/=/g, '')
stripPad(b64) == SelectSeq(b64, LAMBDA x : x # B64_PAD)
\* while (base64.length % 4) base64 += '='
RECURSIVE padded(_)
padded(b64) == IF Len(b64) % 4 = 0 THEN b64 ELSE padded(Append(b64, B64_PAD))

\* Buffer.toString('utf-8')
RECURSIVE fromBytes(_)
fromBytes(bytes) ==
  IF bytes = << >> THEN << >>
  ELSE IF \E c \in UrlChars : Utf8[c] = <<bytes[1]>>
  THEN <<CHOOSE c \in UrlChars : Utf8[c] = <<bytes[1]>> >> \o fromBytes(Tail(bytes))
  ELSE IF Len(bytes) >= 2 /\ \E c \in UrlChars : Utf8[c] = <<bytes[1], bytes[2]>>
  THEN <<CHOOSE c \in UrlChars : Utf8[c] = <<bytes[1], bytes[2]>> >>
       \o fromBytes(SubSeq(bytes, 3, Len(bytes)))
  ELSE <<ReplacementChar>> \o fromBytes(Tail(bytes))

\* String.startsWith
startsWith(text, prefix) ==
  Len(text) >= Len(prefix) /\ SubSeq(text, 1, Len(prefix)) = prefix

HTTP_PREFIX == <<"h", "t", "t", "p", ":", "/", "/">>
HTTPS_PREFIX == <<"h", "t", "t", "p", "s", ":", "/", "/">>

\* what the URL parser does to the letters of a scheme
lower(c) == CASE c = "H" -> "h" [] c = "T" -> "t" [] c = "P" -> "p" [] OTHER -> c
lowerScheme(text) ==
  [k \in 1..Len(text) |-> IF k <= 5 THEN lower(text[k]) ELSE text[k]]

\* new URL(text) does not throw: an http or https scheme in any case, and a
\* host that is not empty
parsesAsUrl(text) ==
  \E prefix \in {HTTP_PREFIX, HTTPS_PREFIX} :
    /\ startsWith(lowerScheme(text), prefix)
    /\ Len(text) > Len(prefix)
    /\ text[Len(prefix) + 1] \notin {"/", "?", ":"}

\* encodeUrl(url)
encodeUrlText(url) ==
  stripPad(replaceAll(replaceAll(toBase64(toBytes(url)), B64_PLUS, B64_MINUS),
                      B64_SLASH, B64_UNDERSCORE))

\* decodeUrl(encoded): null is [ok |-> FALSE]. The two split() calls and
\* decodeURIComponent change nothing in text over the base64 alphabet.
decodeUrlText(encoded) ==
  LET base64 == padded(replaceAll(replaceAll(encoded, B64_MINUS, B64_PLUS),
                                  B64_UNDERSCORE, B64_SLASH))
      decoded == fromBytes(fromBase64(base64))
  IN IF ~startsWith(decoded, HTTP_PREFIX) /\ ~startsWith(decoded, HTTPS_PREFIX)
     THEN [ok |-> FALSE, text |-> << >>]
     ELSE IF ~parsesAsUrl(decoded) THEN [ok |-> FALSE, text |-> << >>]
     ELSE [ok |-> TRUE, text |-> decoded]

\* the absolute http and https URLs encoded: a scheme as a page writes it, a
\* host, and a path and query
SchemePrefixes ==
  { HTTP_PREFIX, HTTPS_PREFIX,
    <<"H", "T", "T", "P", ":", "/", "/">>, <<"H", "t", "t", "p", "s", ":", "/", "/">> }
UrlTails ==
  { << >> } \cup
  UNION { { <<"/">> \o t : t \in [1..n -> {"a", "/", "?", ">", "e'"}] } : n \in 0..MaxTail }
AbsoluteUrls == { p \o <<"a">> \o t : p \in SchemePrefixes, t \in UrlTails }

\* nothing encoded yet
NoCodec == [pc |-> "idle", url |-> << >>, encoded |-> << >>, ok |-> FALSE, decoded |-> << >>]

\* encodeUrl(url) is called
EncodeUrl ==
  /\ codec.pc = "url"
  /\ codec' = [codec EXCEPT !.pc = "encoded", !.encoded = encodeUrlText(codec.url)]
  /\ UNCHANGED <<nebulaVars, urlRewriterVars, pw>>

\* decodeUrl(encoded) is called with what encodeUrl returned
DecodeUrl ==
  LET d == decodeUrlText(codec.encoded) IN
  /\ codec.pc = "encoded"
  /\ codec' = [codec EXCEPT !.pc = "decoded", !.ok = d.ok, !.decoded = d.text]
  /\ UNCHANGED <<nebulaVars, urlRewriterVars, pw>>

NextCodec == EncodeUrl \/ DecodeUrl

\* ================================================ the Playwright sessions
\* (playwright-novnc/server.js, a process of its own)
PW_SESSION_TTL_MS == 30 * 60 * 1000
PW_CLEANUP_PERIOD_MS == 60000
\* the clock of this process moves in steps of half a cleanup period
PwStep == 30000

PwIds == 1..MaxPwSessions

\* an id Math.random() has not produced yet
NoPwSession == [state |-> "unused", createdAt |-> 0, browserOpen |-> FALSE, navigated |-> FALSE]
NoPwAnswer == [op |-> "none", id |-> 0, status |-> 0]

InitPw ==
  pw = [now |-> 0, nextTick |-> PW_CLEANUP_PERIOD_MS, ticked |-> FALSE, lastTick |-> 0,
        sessions |-> [id \in PwIds |-> NoPwSession], expired |-> {}, last |-> NoPwAnswer]

\* time passes, up to the next run of the cleanup timer
PwAdvance ==
  /\ pw.now < MaxPwTime
  /\ pw.now < pw.nextTick
  /\ pw' = [pw EXCEPT !.now = pw.now + PwStep]
  /\ UNCHANGED <<nebulaVars, urlRewriterVars, codec>>

\* POST /api/session/create, once the browser is launched
PwCreate(id) ==
  /\ pw.sessions[id].state = "unused"
  /\ pw.now <= MaxPwCreateAt
  /\ pw' = [pw EXCEPT
              !.sessions[id] = [state |-> "live", createdAt |-> pw.now, browserOpen |-> TRUE,
                                navigated |-> FALSE],
              !.last = [op |-> "create", id |-> id, status |-> 200]]
  /\ UNCHANGED <<nebulaVars, urlRewriterVars, codec>>

\* POST /api/session/:sessionId/navigate: ok tells whether page.goto succeeds
PwNavigate(id, ok) ==
  /\ pw.sessions[id].state # "unused"
  /\ pw' = [pw EXCEPT
              !.sessions[id].navigated = @ \/ (pw.sessions[id].state = "live" /\ ok),
              !.last = [op |-> "navigate", id |-> id,
                        status |-> IF pw.sessions[id].state # "live" THEN 404
                                   ELSE IF ok THEN 200 ELSE 500]]
  /\ UNCHANGED <<nebulaVars, urlRewriterVars, codec>>

\* GET /api/session/:sessionId
PwGet(id) ==
  /\ pw.sessions[id].state # "unused"
  /\ pw' = [pw EXCEPT
              !.last = [op |-> "get", id |-> id,
                        status |-> IF pw.sessions[id].state = "live" THEN 200 ELSE 404]]
  /\ UNCHANGED <<nebulaVars, urlRewriterVars, codec>>

\* POST /api/session/:sessionId/close: ok tells whether browser.close() succeeds
PwClose(id, ok) ==
  /\ pw.sessions[id].state # "unused"
  /\ pw' = [pw EXCEPT
              !.sessions[id] = IF pw.sessions[id].state = "live" /\ ok
                               THEN [@ EXCEPT !.state = "gone", !.browserOpen = FALSE]
                               ELSE @,
              !.last = [op |-> "close", id |-> id, status |-> 200]]
  /\ UNCHANGED <<nebulaVars, urlRewriterVars, codec>>

\* the cleanup never closes a session
pwExpired_Never(session, t) == FALSE

\* now - session.createdAt > 30 * 60 * 1000
pwExpired(session, t) == t - session.createdAt > PW_SESSION_TTL_MS

\* the sessions a run of the cleanup at time t closes and deletes
pwCleanupTargets(t) ==
  { id \in PwIds : pw.sessions[id].state = "live" /\ pwExpired(pw.sessions[id], t) }

\* setInterval(cleanup, 60000)
PwCleanupTick ==
  /\ pw.now >= pw.nextTick
  /\ pw' = [pw EXCEPT
              !.nextTick = pw.now + PW_CLEANUP_PERIOD_MS,
              !.ticked = TRUE,
              !.lastTick = pw.now,
              !.sessions = [id \in PwIds |->
                              IF id \in pwCleanupTargets(pw.now)
                              THEN [pw.sessions[id] EXCEPT !.state = "gone", !.browserOpen = FALSE]
                              ELSE pw.sessions[id]],
              !.expired = pw.expired \cup pwCleanupTargets(pw.now),
              !.last = NoPwAnswer]
  /\ UNCHANGED <<nebulaVars, urlRewriterVars, codec>>

NextPw ==
  \/ PwAdvance
  \/ \E id \in PwIds : PwCreate(id)
  \/ \E id \in PwIds, ok \in BOOLEAN : PwNavigate(id, ok)
  \/ \E id \in PwIds : PwGet(id)
  \/ \E id \in PwIds, ok \in BOOLEAN : PwClose(id, ok)
  \/ PwCleanupTick

\* ------------------------------------------------ the server-side rewriter
\* A URL found in a body: what it starts with ("special" for data:, blob:,
\* javascript: and #), its origin when it is absolute, and the values of its
\* __cpo parameters in the order they appear in the query. Path and the
\* other parameters are kept by the rewriter and are left out.
BodyUrl(kind, origin, cpo) == [kind |-> kind, origin |-> origin, cpo |-> cpo]

\* the URLs of a body as the site sends it
SiteUrls ==
  { BodyUrl("special", "", << >>), BodyUrl("relative", "", << >>) }
  \cup { BodyUrl("absolute", o, << >>) : o \in {"site", "cdn"} }

\* no body yet
NoHtml == [body |-> << >>, base |-> "", prev |-> << >>, passes |-> 0, doc |-> << >>]

\* The markup of a document, as the tags and scripts the injection looks
\* at, in order: a head tag as written (plain, with attributes, upper case),
\* the end of the head, the body tag, a script of the site.
HeadTags == {"<head>", "<head x>", "<HEAD>"}
DocTokens == HeadTags \cup {"</head>", "<body>", "script"}

\* the positions of the tokens of a set in a document
positions(doc, tokens) == { k \in 1..Len(doc) : doc[k] \in tokens }
\* the first of them (0: none)
firstOf(doc, tokens) ==
  IF positions(doc, tokens) = {} THEN 0
  ELSE CHOOSE k \in positions(doc, tokens) : \A j \in positions(doc, tokens) : k <= j

\* the documents a site sends: at most one head tag, its end after it, the
\* body tag after both, scripts anywhere
SiteDocs ==
  { d \in UNION { [1..n -> DocTokens] : n \in 0..MaxDocLen } :
      /\ Cardinality(positions(d, HeadTags)) <= 1
      /\ Cardinality(positions(d, {"</head>"})) <= 1
      /\ Cardinality(positions(d, {"<body>"})) <= 1
      /\ positions(d, {"</head>"}) # {} =>
           /\ positions(d, HeadTags) # {}
           /\ firstOf(d, HeadTags) < firstOf(d, {"</head>"})
      /\ \A k \in positions(d, {"<body>"}) :
           \A j \in positions(d, HeadTags \cup {"</head>"}) : j < k }

\* doc with token put after position k
insertAfter(doc, k, token) ==
  SubSeq(doc, 1, k) \o <<token>> \o SubSeq(doc, k + 1, Len(doc))

\* the early script goes after '<head>', else, when the text has '<head ',
\* after the first match of /<head([^>]*)>/i, else nowhere
withEarlySpoof(doc) ==
  IF positions(doc, {"<head>"}) # {}
  THEN insertAfter(doc, firstOf(doc, {"<head>"}), "early")
  ELSE IF positions(doc, {"<head x>"}) # {}
  THEN insertAfter(doc, firstOf(doc, HeadTags), "early")
  ELSE doc

\* the main script goes before '</head>', else after the body tag, else in
\* front of the document
withInterceptor(doc) ==
  IF positions(doc, {"</head>"}) # {}
  THEN insertAfter(doc, firstOf(doc, {"</head>"}) - 1, "main")
  ELSE IF positions(doc, {"<body>"}) # {}
  THEN insertAfter(doc, firstOf(doc, {"<body>"}), "main")
  ELSE <<"main">> \o doc

\* the bodies handed to the rewriter and the page they come from
SiteBodies ==
  { [body |-> b, base |-> o, prev |-> << >>, passes |-> 0, doc |-> d] :
      b \in UNION { [1..n -> SiteUrls] : n \in 1..MaxUrls }, o \in {"site", "cdn"},
      d \in SiteDocs }

\* base64 of the whole absolute URL, its own __cpo parameters included
encodeUrl(absolute) == [base64 |-> absolute]

\* rewriteUrls.toProxyUrl: the URL made absolute against the base, then
\* proxyOrigin + pathname + search + '&__cpo=' (or '?__cpo=') + encodeUrl(absolute)
toProxyUrl(url, base) ==
  IF url.kind = "special" THEN url
  ELSE LET absolute == IF url.kind = "relative" THEN BodyUrl("absolute", base, url.cpo) ELSE url
       IN BodyUrl("absolute", "proxy", url.cpo \o <<encodeUrl(absolute)>>)

\* rewriteUrls(content, baseUrl, proxyOrigin): every URL of the body goes
\* through toProxyUrl, then the two scripts are put into the document
RewriteUrls ==
  /\ html.passes < MaxPasses
  /\ html' = [html EXCEPT
                !.prev = html.body,
                !.body = [k \in 1..Len(html.body) |-> toProxyUrl(html.body[k], html.base)],
                !.passes = html.passes + 1,
                !.doc = withInterceptor(withEarlySpoof(html.doc))]
  /\ UNCHANGED <<nebulaVars, sessionBaseUrls, proxy, page, sideVars>>

\* ==================================================== the URL-rewriting proxy
\* The proxy is a process of its own (PORT 3003). URLs are kept by the parts
\* the handler looks at: the host and whether a port is written out; paths
\* and queries are carried along unchanged and left out.
PROXY_PORT == "3003"
UrlHosts == {"site", "localhost", "127.0.0.1"}
Urls == [host : UrlHosts, port : {"", PROXY_PORT}]
NoUrl == [host |-> "", port |-> ""]

\* s.includes('localhost:') || s.includes('127.0.0.1:') on a URL
includesLocalPort(u) == u.host \in {"localhost", "127.0.0.1"} /\ u.port # ""

\* s.includes('localhost') on a URL
includesLocalhost(u) == u.host = "localhost"

\* the URL names this proxy
isSelf(u) == u.host \in {"localhost", "127.0.0.1"} /\ u.port = PROXY_PORT

\* The values of a __cpo parameter (searchParams.get('__cpo')), by what
\* decodeUrl finds in them: no parameter (null), the empty string, text that
\* does not start with http:// or https://, text that starts so and that
\* new URL() rejects, or an absolute URL.
CpoValues ==
  { [kind |-> k, url |-> NoUrl] : k \in {"absent", "empty", "garbage", "badurl"} }
  \cup { [kind |-> "url", url |-> u] : u \in Urls }

\* if (cpoParam): null and '' are falsy
truthy(cpo) == cpo.kind \notin {"absent", "empty"}

\* decodeUrl(encoded): the decoded URL, or NoUrl for null
decodeUrl(encoded) ==
  IF encoded.kind = "garbage" THEN NoUrl       \* !decoded.startsWith('http')
  ELSE IF encoded.kind = "badurl" THEN NoUrl   \* new URL(decoded) throws
  ELSE IF encoded.kind = "url" THEN encoded.url
  ELSE NoUrl

\* the Referer header: none, or a proxied URL carrying __cpo=<value> (of a
\* page of the site, or of a page fetched from this proxy itself)
Referers ==
  { c \in CpoValues :
      \/ c.kind = "absent"
      \/ (c.kind = "url" /\ c.url.host = "site" /\ c.url.port = "")
      \/ (c.kind = "url" /\ isSelf(c.url)) }

Methods == {"GET", "POST", "OPTIONS"}

\* a request: req.method, whether req.url is exactly '/', the __cpo
\* parameter and the Referer
Requests ==
  { r \in [method : Methods, root : BOOLEAN, cpo : CpoValues, referer : Referers] :
      r.root => r.cpo.kind = "absent" }

NoRequest ==
  [method |-> "", root |-> FALSE, cpo |-> [kind |-> "absent", url |-> NoUrl],
   referer |-> [kind |-> "absent", url |-> NoUrl]]

\* fetchUrl(url, options) in progress: via is the status of the redirect that
\* led to this request (0: the first request)
NoFetch == [url |-> NoUrl, method |-> "", body |-> FALSE, via |-> 0]

\* the answer written to the client, and the headers of the upstream answer
\* it was made from
NoRelay == [status |-> 0, headers |-> {}, upstream |-> {}]

\* the headers the claim names as stripped
StrippedHeaders ==
  {"content-security-policy", "content-security-policy-report-only", "x-frame-options",
   "cross-origin-opener-policy", "cross-origin-embedder-policy",
   "cross-origin-resource-policy", "permissions-policy", "x-xss-protection",
   "x-content-security-policy"}

\* the header sets an upstream answer carries in the model
UpstreamHeaderSets ==
  { S \cup T : S \in SUBSET {"x-csrf-token", "cache-control"},
               T \in {{}, {"content-security-policy"}, StrippedHeaders} }

\* res.setHeader(...) at the top of the handler
CorsHeaders ==
  {"access-control-allow-origin", "access-control-allow-methods",
   "access-control-allow-headers", "access-control-allow-credentials",
   "access-control-expose-headers"}

\* a slip of the relay: every upstream header is copied
relayHeaders_CopyAll(branch, upstream) == CorsHeaders \cup {"content-type"} \cup upstream

\* the header names of the relayed answer: the handler builds the set anew
\* and copies the upstream headers it names
relayHeaders(branch, upstream) ==
  IF branch = "proxy"
  THEN CorsHeaders \cup {"content-type"}
       \cup (upstream \cap {"x-csrf-token", "rblx-challenge-id", "rblx-challenge-type",
                           "rblx-challenge-metadata", "set-cookie",
                           "content-disposition", "cache-control"})
  ELSE CorsHeaders \cup {"content-type", "cache-control"}
       \cup (upstream \cap {"x-csrf-token"})

InitHandler ==
  /\ InitPage
  /\ sessionBaseUrls = NoUrl
  /\ proxy = [pc |-> "idle", req |-> NoRequest, branch |-> "none",
              fetch |-> NoFetch, res |-> NoRelay]

\* nothing followed on its own
InitSide ==
  /\ codec = NoCodec
  /\ InitPw

InitProxy == InitHandler /\ html = NoHtml /\ InitSide

\* the handler answers at once
answered(r, branch, status) ==
  [pc |-> "done", req |-> r, branch |-> branch, fetch |-> NoFetch,
   res |-> [status |-> status, headers |-> CorsHeaders \cup {"content-type"},
            upstream |-> {}]]

\* the handler issues fetchUrl(url, {method: req.method, body: requestBody, ...})
fetching(r, branch, url) ==
  [pc |-> "fetching", req |-> r, branch |-> branch,
   fetch |-> [url |-> url, method |-> r.method, body |-> (r.method = "POST"), via |-> 0],
   res |-> NoRelay]

\* the target of the proxy branch: a decoded URL that points at localhost
\* with a port is resolved against the referer base, then the session base
resolvedTarget(targetUrl, referer) ==
  IF ~includesLocalPort(targetUrl) THEN targetUrl
  ELSE LET refererBase == IF referer.kind = "absent" THEN NoUrl ELSE decodeUrl(referer)
           t1 == IF refererBase # NoUrl /\ ~includesLocalhost(refererBase)
                 THEN refererBase ELSE targetUrl
       IN IF includesLocalhost(t1)
          THEN IF sessionBaseUrls # NoUrl /\ ~includesLocalhost(sessionBaseUrls)
               THEN sessionBaseUrls ELSE t1
          ELSE t1

\* the base of the relative fall-through: the referer's __cpo, else the
\* session base, else none
fallThroughBase(referer) ==
  LET fromReferer == IF referer.kind = "absent" THEN NoUrl ELSE decodeUrl(referer) IN
  IF fromReferer # NoUrl THEN fromReferer ELSE sessionBaseUrls

\* http.createServer handler, up to its answer or its upstream fetch
ProxyRequest(r) ==
  /\ proxy.pc \in {"idle", "done", "unanswered"}
  /\ IF r.method = "OPTIONS"
     THEN /\ proxy' = answered(r, "options", 200)
          /\ UNCHANGED sessionBaseUrls
     ELSE IF r.root
     THEN /\ proxy' = answered(r, "home", 200)
          /\ UNCHANGED sessionBaseUrls
     ELSE IF truthy(r.cpo)
     THEN IF decodeUrl(r.cpo) = NoUrl
          THEN /\ proxy' = answered(r, "proxy", 400)
               /\ UNCHANGED sessionBaseUrls
          ELSE LET targetUrl == resolvedTarget(decodeUrl(r.cpo), r.referer) IN
               /\ sessionBaseUrls' = targetUrl
               /\ proxy' = fetching(r, "proxy", targetUrl)
     ELSE LET baseUrl == fallThroughBase(r.referer) IN
          /\ UNCHANGED sessionBaseUrls
          /\ IF baseUrl = NoUrl \/ baseUrl.host \in {"localhost", "127.0.0.1"}
             THEN proxy' = answered(r, "notfound", 404)
             ELSE proxy' = fetching(r, "relative", baseUrl)
  /\ UNCHANGED <<nebulaVars, page, html, sideVars>>

\* the upstream answers 3xx with a Location: fetchUrl calls itself on the
\* redirect URL with the same options
FetchRedirected(status, location) ==
  /\ proxy.pc = "fetching"
  /\ proxy' = [proxy EXCEPT !.fetch = [url |-> location, method |-> proxy.fetch.method,
                                       body |-> proxy.fetch.body, via |-> status]]
  /\ UNCHANGED <<sessionBaseUrls, nebulaVars, page, html, sideVars>>

\* the upstream answers otherwise: fetchUrl resolves, the handler relays the
\* answer with the headers it builds and is done with the request
FetchAnswered(status, upstream) ==
  /\ proxy.pc = "fetching"
  /\ proxy' = [proxy EXCEPT !.pc = "done", !.req = NoRequest, !.fetch = NoFetch,
                            !.res = [status |-> status,
                                     headers |-> relayHeaders(proxy.branch, upstream),
                                     upstream |-> upstream]]
  /\ UNCHANGED <<sessionBaseUrls, nebulaVars, page, html, sideVars>>

\* the upstream request errors or times out: fetchUrl rejects, the proxy
\* branch answers 500 and the relative fall-through goes on to the 404
FetchFailed ==
  /\ proxy.pc = "fetching"
  /\ proxy' = [proxy EXCEPT !.pc = "done", !.req = NoRequest, !.fetch = NoFetch,
                            !.res = [status |-> IF proxy.branch = "proxy" THEN 500 ELSE 404,
                                     headers |-> CorsHeaders \cup {"content-type"},
                                     upstream |-> {}]]
  /\ UNCHANGED <<sessionBaseUrls, nebulaVars, page, html, sideVars>>

\* A request whose URL new URL(req.url, base) rejects (GET //), past the
\* OPTIONS and the home page tests: the exception is thrown outside every
\* try block and the promise of the async handler is rejected, with no
\* handler for it in the process. The runtime then ends the process, or
\* (an older one) warns and goes on: the request is never answered.
ProxyRequestUnparsable(method, outcome) ==
  /\ proxy.pc \in {"idle", "done", "unanswered"}
  /\ proxy' = [pc |-> outcome, req |-> [NoRequest EXCEPT !.method = method],
               branch |-> "none", fetch |-> NoFetch, res |-> NoRelay]
  /\ UNCHANGED <<sessionBaseUrls, nebulaVars, page, html, sideVars>>

NextUrp ==
  \/ \E r \in Requests : ProxyRequest(r)
  \/ \E method \in Methods \ {"OPTIONS"}, outcome \in {"crashed", "unanswered"} :
       ProxyRequestUnparsable(method, outcome)
  \/ \E status \in {301, 302, 303, 307, 308}, location \in Urls : FetchRedirected(status, location)
  \/ \E status \in {200, 403}, upstream \in UpstreamHeaderSets : FetchAnswered(status, upstream)
  \/ FetchFailed

\* ------------------------------------------------------------------ Init
\* the in-process state after module initialisation
InitProcess ==
  /\ now = BootTime
  /\ advances = 0
  /\ BROWSERS = [id \in Slots |-> FreeBrowser]
  /\ sessions = << >>
  /\ clientSessions = [c \in Clients |-> null]
  /\ activeConnections = [id \in Slots |-> NoConn]
  /\ browserTokens = [id \in Slots |-> null]
  /\ tokenToBrowser = [t \in Tokens |-> null]
  /\ urlTokens = [t \in Tokens |-> NoUrlToken]
  /\ nextToken = 1
  /\ nextSession = 1
  /\ pending = << >>
  /\ restore = [pc |-> "fetch", i |-> 1, state |-> [id \in Slots |-> Tombstone]]
  /\ last = NoResp
  /\ minted = [t \in Tokens |-> null]
  /\ consumed = {}
  /\ opened = {}
  /\ issued = [id \in Slots |-> {}]
  /\ revoked = {}
  /\ wsSockets = [s \in 1..MaxSockets |-> NoSocket]
  /\ wsIdleFrom = [id \in Slots |-> null]
  /\ audioSockets = [s \in 1..MaxAudio |-> NoAudioSocket]
  /\ audioProcesses = << >>
  /\ ffmpeg = [p \in 1..MaxProcs |-> NoProc]
  /\ audioClock = 1

Init == InitProcess /\ mirror \in SavedStates /\ InitProxy

\* ------------------------------------------------------------ the clock
TimeAdvance(ticks) ==
  /\ advances < MaxAdvances
  /\ advances' = advances + 1
  /\ now' = now + ticks * Tick
  /\ last' = NoResp
  /\ UNCHANGED <<urpVars, wsVars, BROWSERS, sessions, clientSessions, activeConnections,
                 browserTokens, tokenToBrowser, urlTokens, nextToken, nextSession,
                 mirror, pending, restore, minted, consumed, opened, issued, revoked>>

\* ------------------------------------------------------ helpers of the store
getBrowserById(id) == IF id \in Slots THEN id ELSE null

\* the slots in use
inUseSlots == { id \in Slots : BROWSERS[id].inUse }

\* the body of the 503 answer of request-browser
AllBrowsersInUse ==
  [error |-> "all_browsers_in_use", inUse |-> Cardinality(inUseSlots),
   total |-> NumBrowsers, retryAfterSeconds |-> 30]

\* a slip of the search: no free slot is ever found
findAvailableBrowser_None == null

\* BROWSERS.find(b => !b.inUse): the first slot that is not in use
findAvailableBrowser ==
  IF \E id \in Slots : ~BROWSERS[id].inUse
  THEN CHOOSE id \in Slots :
         /\ ~BROWSERS[id].inUse
         /\ \A j \in Slots : ~BROWSERS[j].inUse => id <= j
  ELSE null

\* findBrowserByClientId: the slot the client holds, or null ...
\* a slip of the lookup: the client's slot is never found
findBrowserByClientId_None(c) == null

findBrowserByClientId(c) ==
  LET id == clientSessions[c] IN
  IF id # null /\ BROWSERS[id].inUse /\ BROWSERS[id].clientId = c THEN id ELSE null

\* ... and clientSessions after the call: a stale mapping is deleted
clientSessionsAfterFind(c) ==
  IF clientSessions[c] # null /\ findBrowserByClientId(c) = null
  THEN [clientSessions EXCEPT ![c] = null]
  ELSE clientSessions

\* validateBrowserAccess(req, browserId), on the value of the nebula_session cookie
validateBrowserAccess(cookie, id) ==
  /\ cookie # null
  /\ cookie \in Tokens
  /\ tokenToBrowser[cookie] = id

\* a slip of the ?token= test: the slot of the entry is not compared
urlTokenAccepted_AnySlot(q, id) ==
  /\ q \in Tokens
  /\ urlTokens[q].browserId # null

\* the ?token= test of the proxy route: urlEntry && urlEntry.browserId === browser.id
urlTokenAccepted(q, id) ==
  /\ q \in Tokens
  /\ urlTokens[q].browserId = id

\* a slip of the consumption: the entry is left in the map
consumeUrlToken_Kept(q) == urlTokens

\* urlTokens.delete(qToken)
consumeUrlToken(q) == [urlTokens EXCEPT ![q] = NoUrlToken]

\* the members of a set of slots in ascending order (for ... of BROWSERS)
RECURSIVE InOrder(_)
InOrder(S) ==
  IF S = {} THEN << >>
  ELSE LET m == CHOOSE x \in S : \A y \in S : x <= y
       IN <<m>> \o InOrder(S \ {m})

\* ------------------------------------------------------------ doReleaseBrowser
\* for (const [sessionId, session] of sessions)
\*   if (session.browserId === browser.id) { sessions.delete(sessionId); break; }
deleteSessionOf(seq, id) ==
  LET hits == { i \in 1..Len(seq) : seq[i].browserId = id } IN
  IF hits = {} THEN seq
  ELSE LET k == CHOOSE i \in hits : \A j \in hits : i <= j
       IN SubSeq(seq, 1, k - 1) \o SubSeq(seq, k + 1, Len(seq))

RECURSIVE deleteSessionsOf(_, _)
deleteSessionsOf(seq, ids) ==
  IF ids = << >> THEN seq
  ELSE deleteSessionsOf(deleteSessionOf(seq, Head(ids)), Tail(ids))

\* the slot record doReleaseBrowser leaves: lastUsed is kept
releasedBrowser(b) ==
  [b EXCEPT !.inUse = FALSE, !.sessionId = null, !.clientId = NoClient,
            !.lastHeartbeat = null]

\* doReleaseBrowser on every slot of R (all in use), in slot order, starting
\* from the client map cs; resp is what the handler answers.
doReleaseBrowsers(R, cs, resp) ==
  LET after == [id \in Slots |-> IF id \in R THEN releasedBrowser(BROWSERS[id])
                                 ELSE BROWSERS[id]]
      order == InOrder(R)
  IN
  /\ Len(pending) + Cardinality(R) <= MaxPending
  /\ sessions' = deleteSessionsOf(sessions, order)
  /\ clientSessions' =
       [c \in Clients |-> IF \E id \in R : BROWSERS[id].clientId = c THEN null ELSE cs[c]]
  /\ tokenToBrowser' =
       [t \in Tokens |-> IF \E id \in R : browserTokens[id] = t THEN null
                         ELSE tokenToBrowser[t]]
  /\ browserTokens' = [id \in Slots |-> IF id \in R THEN null ELSE browserTokens[id]]
  /\ urlTokens' =
       [t \in Tokens |-> IF urlTokens[t].browserId \in R THEN NoUrlToken ELSE urlTokens[t]]
  /\ BROWSERS' = after
  /\ activeConnections' =
       [id \in Slots |-> IF id \in R THEN NoConn ELSE activeConnections[id]]
  /\ pending' = pending \o [k \in 1..Len(order) |-> SyncWrite(order[k], after[order[k]])]
  /\ revoked' = revoked \cup UNION { issued[id] : id \in R }
  /\ issued' = [id \in Slots |-> IF id \in R THEN {} ELSE issued[id]]
  /\ last' = [resp EXCEPT !.released = R]
  /\ UNCHANGED <<urpVars, wsVars, now, advances, nextToken, nextSession, mirror, restore, minted, consumed, opened>>

\* a slip of the existing branch: the url token is not bound to the cookie token
assignExisting_UnboundUrlToken(c, e) ==
  LET regen  == browserTokens[e] = null
      cookie == IF regen THEN nextToken ELSE browserTokens[e]
      url    == IF regen THEN nextToken + 1 ELSE nextToken
      after  == [BROWSERS EXCEPT ![e].lastHeartbeat = now]
  IN
  /\ url <= MaxTokens
  /\ Len(pending) < MaxPending
  /\ BROWSERS' = after
  /\ sessions' = Append(sessions, [sessionId |-> nextSession, browserId |-> e, clientId |-> c])
  /\ pending' = Append(pending, SyncWrite(e, after[e]))
  /\ browserTokens' = [browserTokens EXCEPT ![e] = cookie]
  /\ tokenToBrowser' = [tokenToBrowser EXCEPT ![cookie] = e]
  /\ urlTokens' = [urlTokens EXCEPT ![url] =
                     [browserId |-> e, cookieToken |-> url, createdAt |-> now]]
  /\ nextToken' = url + 1
  /\ nextSession' = nextSession + 1
  /\ minted' = [minted EXCEPT ![url] = e]
  /\ issued' = [issued EXCEPT ![e] = @ \cup {cookie}]
  /\ last' = [NoResp EXCEPT !.op = "request-browser", !.status = 200,
                            !.browserId = e, !.urlToken = url]
  /\ UNCHANGED <<urpVars, wsVars, now, advances, clientSessions, activeConnections, mirror, restore,
                 consumed, opened, revoked>>

\* ------------------------------------------------------------ assignBrowser
\* the branch "client already has a browser"
assignExisting(c, e) ==
  LET regen  == browserTokens[e] = null
      cookie == IF regen THEN nextToken ELSE browserTokens[e]
      url    == IF regen THEN nextToken + 1 ELSE nextToken
      after  == [BROWSERS EXCEPT ![e].lastHeartbeat = now]
  IN
  /\ url <= MaxTokens
  /\ Len(pending) < MaxPending
  /\ BROWSERS' = after
  /\ sessions' = Append(sessions, [sessionId |-> nextSession, browserId |-> e, clientId |-> c])
  /\ pending' = Append(pending, SyncWrite(e, after[e]))
  /\ browserTokens' = [browserTokens EXCEPT ![e] = cookie]
  /\ tokenToBrowser' = [tokenToBrowser EXCEPT ![cookie] = e]
  /\ urlTokens' = [urlTokens EXCEPT ![url] =
                     [browserId |-> e, cookieToken |-> cookie, createdAt |-> now]]
  /\ nextToken' = url + 1
  /\ nextSession' = nextSession + 1
  /\ minted' = [minted EXCEPT ![url] = e]
  /\ issued' = [issued EXCEPT ![e] = @ \cup {cookie}]
  /\ last' = [NoResp EXCEPT !.op = "request-browser", !.status = 200,
                            !.browserId = e, !.urlToken = url]
  /\ UNCHANGED <<urpVars, wsVars, now, advances, clientSessions, activeConnections, mirror, restore,
                 consumed, opened, revoked>>

\* createSessionTokens: the cookie-token map after the old token of the slot
\* is dropped and the new one installed
tokenToBrowserAfterCreate(id, cookie) ==
  [t \in Tokens |-> IF t = cookie THEN id
                    ELSE IF t = browserTokens[id] THEN null
                    ELSE tokenToBrowser[t]]

\* the branch that claims the free slot id, starting from the client map cs
assignNew(c, id, cs) ==
  LET cookie == nextToken
      url    == nextToken + 1
      after  == [BROWSERS EXCEPT ![id] =
                   [inUse |-> TRUE, lastUsed |-> now, lastHeartbeat |-> now,
                    sessionId |-> nextSession, clientId |-> c]]
  IN
  /\ url <= MaxTokens
  /\ Len(pending) < MaxPending
  /\ BROWSERS' = after
  /\ sessions' = Append(sessions, [sessionId |-> nextSession, browserId |-> id, clientId |-> c])
  /\ clientSessions' = [cs EXCEPT ![c] = id]
  /\ activeConnections' = [activeConnections EXCEPT ![id] = NewConn]
  /\ browserTokens' = [browserTokens EXCEPT ![id] = cookie]
  /\ tokenToBrowser' = tokenToBrowserAfterCreate(id, cookie)
  /\ urlTokens' = [urlTokens EXCEPT ![url] =
                     [browserId |-> id, cookieToken |-> cookie, createdAt |-> now]]
  /\ pending' = Append(pending, SyncWrite(id, after[id]))
  /\ nextToken' = url + 1
  /\ nextSession' = nextSession + 1
  /\ minted' = [minted EXCEPT ![url] = id]
  /\ issued' = [issued EXCEPT ![id] = @ \cup {cookie}]
  /\ last' = [NoResp EXCEPT !.op = "request-browser", !.status = 200,
                            !.browserId = id, !.urlToken = url]
  /\ UNCHANGED <<urpVars, wsVars, now, advances, mirror, restore, consumed, opened, revoked>>

\* POST /api/request-browser {clientId: c}
RequestBrowser(c) ==
  LET e    == findBrowserByClientId(c)
      cs   == clientSessionsAfterFind(c)
      free == findAvailableBrowser
  IN
  /\ nextSession <= MaxSessions
  /\ IF e # null THEN assignExisting(c, e)
     ELSE IF free # null THEN assignNew(c, free, cs)
     ELSE /\ clientSessions' = cs
          /\ last' = [NoResp EXCEPT !.op = "request-browser", !.status = 503,
                                    !.body = AllBrowsersInUse]
          /\ UNCHANGED <<urpVars, wsVars, now, advances, BROWSERS, sessions, activeConnections, browserTokens,
                         tokenToBrowser, urlTokens, nextToken, nextSession, mirror,
                         pending, restore, minted, consumed, opened, issued, revoked>>

\* GET /api/check-session?clientId=c
CheckSession(c) ==
  LET id == findBrowserByClientId(c)
      cs == clientSessionsAfterFind(c)
  IN
  IF id = null
  THEN /\ clientSessions' = cs
       /\ last' = NoResp
       /\ UNCHANGED <<urpVars, wsVars, now, advances, BROWSERS, sessions, activeConnections, browserTokens,
                      tokenToBrowser, urlTokens, nextToken, nextSession, mirror,
                      pending, restore, minted, consumed, opened, issued, revoked>>
  ELSE LET lastHb == Or(BROWSERS[id].lastHeartbeat, BROWSERS[id].lastUsed)
           age    == now - lastHb
           regen  == browserTokens[id] = null
           cookie == IF regen THEN nextToken ELSE browserTokens[id]
           url    == IF regen THEN nextToken + 1 ELSE nextToken
       IN
       IF age < SESSION_TIMEOUT_MS
       THEN /\ url <= MaxTokens
            /\ browserTokens' = [browserTokens EXCEPT ![id] = cookie]
            /\ tokenToBrowser' = [tokenToBrowser EXCEPT ![cookie] = id]
            /\ urlTokens' = [urlTokens EXCEPT ![url] =
                               [browserId |-> id, cookieToken |-> cookie, createdAt |-> now]]
            /\ nextToken' = url + 1
            /\ minted' = [minted EXCEPT ![url] = id]
            /\ issued' = [issued EXCEPT ![id] = @ \cup {cookie}]
            /\ last' = [NoResp EXCEPT !.op = "check-session", !.status = 200,
                                      !.browserId = id, !.urlToken = url]
            /\ UNCHANGED <<urpVars, wsVars, now, advances, BROWSERS, sessions, clientSessions, activeConnections,
                           nextSession, mirror, pending, restore, consumed, opened,
                           revoked>>
       ELSE doReleaseBrowsers({id}, cs, NoResp)

\* POST /api/release {clientId: c}
ReleaseByClient(c) ==
  LET id == findBrowserByClientId(c)
      cs == clientSessionsAfterFind(c)
  IN
  IF id # null
  THEN doReleaseBrowsers({id}, cs, NoResp)
  ELSE /\ clientSessions' = cs
       /\ last' = NoResp
       /\ UNCHANGED <<urpVars, wsVars, now, advances, BROWSERS, sessions, activeConnections, browserTokens,
                      tokenToBrowser, urlTokens, nextToken, nextSession, mirror,
                      pending, restore, minted, consumed, opened, issued, revoked>>

\* POST /api/release {browserId: id}
ReleaseByBrowser(id) ==
  IF BROWSERS[id].inUse
  THEN doReleaseBrowsers({id}, clientSessions,
         NoResp)
  ELSE /\ last' = NoResp
       /\ UNCHANGED <<urpVars, wsVars, now, advances, BROWSERS, sessions, clientSessions, activeConnections,
                      browserTokens, tokenToBrowser, urlTokens, nextToken, nextSession,
                      mirror, pending, restore, minted, consumed, opened, issued,
                      revoked>>

\* POST /api/heartbeat {browserId: id}; sync is the Math.random() < 0.2 draw
HeartbeatByBrowser(id, sync) ==
  LET after == [BROWSERS EXCEPT ![id].lastHeartbeat = now] IN
  /\ BROWSERS[id].inUse
  /\ BROWSERS' = after
  /\ IF sync
     THEN /\ Len(pending) < MaxPending
          /\ pending' = Append(pending, SyncWrite(id, after[id]))
     ELSE pending' = pending
  /\ last' = NoResp
  /\ UNCHANGED <<urpVars, wsVars, now, advances, sessions, clientSessions, activeConnections, browserTokens,
                 tokenToBrowser, urlTokens, nextToken, nextSession, mirror, restore,
                 minted, consumed, opened, issued, revoked>>

\* POST /api/heartbeat {sessionId: the id of sessions[k]}
HeartbeatBySession(k) ==
  LET id == getBrowserById(sessions[k].browserId) IN
  /\ id # null
  /\ BROWSERS' = [BROWSERS EXCEPT ![id].lastHeartbeat = now]
  /\ last' = NoResp
  /\ UNCHANGED <<urpVars, wsVars, now, advances, sessions, clientSessions, activeConnections, browserTokens,
                 tokenToBrowser, urlTokens, nextToken, nextSession, mirror, pending,
                 restore, minted, consumed, opened, issued, revoked>>

\* ------------------------------------------------------------ the reaper
\* rule 1 of cleanupSessions: no heartbeat for SESSION_TIMEOUT_MS
heartbeatExpired(b) ==
  LET lastHb == Or(b.lastHeartbeat, b.lastUsed) IN
  lastHb # null /\ now - lastHb > SESSION_TIMEOUT_MS

\* rule 2 of cleanupSessions: no WebSocket for WS_PRESENCE_TIMEOUT_MS
wsPresenceExpired(b, conn) ==
  /\ ~conn.present \/ conn.count <= 0
  /\ LET disconnectTime == Or(IF conn.present THEN conn.lastDisconnect ELSE null,
                              b.lastUsed)
         assignAge == now - b.lastUsed
     IN /\ assignAge > WS_GRACE_MS
        /\ disconnectTime # null
        /\ now - disconnectTime > WS_PRESENCE_TIMEOUT_MS

\* cleanupSessions, every 30 s
CleanupSessions ==
  LET R == { id \in Slots :
               /\ BROWSERS[id].inUse
               /\ \/ heartbeatExpired(BROWSERS[id])
                  \/ wsPresenceExpired(BROWSERS[id], activeConnections[id]) }
  IN doReleaseBrowsers(R, clientSessions, NoResp)

\* cleanupUrlTokens, every 60 s
CleanupUrlTokens ==
  /\ urlTokens' =
       [t \in Tokens |->
          IF urlTokens[t].browserId # null /\ now - urlTokens[t].createdAt > URL_TOKEN_TTL_MS
          THEN NoUrlToken ELSE urlTokens[t]]
  /\ last' = NoResp
  /\ UNCHANGED <<urpVars, wsVars, now, advances, BROWSERS, sessions, clientSessions, activeConnections,
                 browserTokens, tokenToBrowser, nextToken, nextSession, mirror,
                 pending, restore, minted, consumed, opened, issued, revoked>>

\* ------------------------------------------------ the /browser/<N>/ route
\* What the container answers to the forwarded request: a page, or a page
\* whose headers carry a Set-Cookie of the container.
Upstream == {"ok", "set-cookie"}

\* The access control of the route, for the request GET /browser/<id>/...
\* with cookie nebula_session=<cookie> and query ?token=<q> (null: absent):
\* "cookie" (validateBrowserAccess), "url" (one-time token), or "denied".
accessDecision(id, cookie, q) ==
  IF validateBrowserAccess(cookie, id) THEN "cookie"
  ELSE IF q # null /\ urlTokenAccepted(q, id) THEN "url"
  ELSE "denied"

\* The session cookie the client receives with the answer. The handler sets
\* Set-Cookie with setHeader; the answer is written with
\* res.writeHead(status, proxyRes.headers), whose headers take precedence, or
\* by http-proxy, which copies every upstream header with setHeader: a
\* Set-Cookie of the container replaces the one of the handler.
deliveredCookie(cookieToken, up) ==
  IF up = "set-cookie" THEN null ELSE cookieToken

\* The answer of the route to that request when the container answers `up`:
\* the status, whether the request was forwarded to the container, and the
\* session cookie the client receives.
httpAnswer(id, cookie, q, up) ==
  LET decision == accessDecision(id, cookie, q) IN
  [status    |-> IF decision = "denied" THEN 403 ELSE 200,
   forwarded |-> decision # "denied",
   setCookie |-> IF decision = "url"
                 THEN deliveredCookie(urlTokens[q].cookieToken, up)
                 ELSE null]

\* The token values a request can carry: none, or a value the generator has
\* handed out (any other string is in no map, and is treated as none is).
Presentable == {null} \cup { t \in Tokens : t < nextToken }

\* GET /browser/<id>/... with cookie nebula_session=<cookie> and ?token=<q>,
\* one action per outcome of the access control. Only an access that consumes
\* a url token leaves a trace in `last`.

\* 403: the request changes nothing
HttpBrowserDenied ==
  /\ IF \E id \in Slots, cookie \in Presentable, q \in Presentable :
          accessDecision(id, cookie, q) = "denied"
     THEN TRUE ELSE FALSE
  /\ last' = NoResp
  /\ UNCHANGED <<urpVars, wsVars, now, advances, BROWSERS, sessions, clientSessions, activeConnections,
                 browserTokens, tokenToBrowser, urlTokens, nextToken, nextSession,
                 mirror, pending, restore, minted, consumed, opened, issued, revoked>>

\* access by the cookie: the token of the query is not looked at
HttpBrowserByCookie(id, cookie, q) ==
  /\ accessDecision(id, cookie, q) = "cookie"
  /\ opened' = IF q # null /\ minted[q] = id THEN opened \cup {q} ELSE opened
  /\ last' = NoResp
  /\ UNCHANGED <<urpVars, wsVars, now, advances, BROWSERS, sessions, clientSessions, activeConnections,
                 browserTokens, tokenToBrowser, urlTokens, nextToken, nextSession,
                 mirror, pending, restore, minted, consumed, issued, revoked>>

\* access by the one-time url token, which is consumed
HttpBrowserByUrlToken(id, cookie, q, up) ==
  /\ accessDecision(id, cookie, q) = "url"
  /\ urlTokens' = consumeUrlToken(q)
  /\ consumed' = consumed \cup {q}
  /\ opened' = opened \cup {q}
  /\ last' = [NoResp EXCEPT !.op = "http",
                !.status = httpAnswer(id, cookie, q, up).status,
                !.browserId = id, !.urlToken = q,
                !.setCookie = httpAnswer(id, cookie, q, up).setCookie]
  /\ UNCHANGED <<urpVars, wsVars, now, advances, BROWSERS, sessions, clientSessions, activeConnections,
                 browserTokens, tokenToBrowser, nextToken, nextSession, mirror,
                 pending, restore, minted, issued, revoked>>

\* ------------------------------------------------- state-mirror completions
\* The oldest write in flight reaches the store (writes of one connection are
\* applied in order).
MirrorWriteDone ==
  /\ pending # << >>
  /\ ~Head(pending).awaitedByRestore
  /\ mirror' = [mirror EXCEPT ![Head(pending).id] = Head(pending).value]
  /\ pending' = Tail(pending)
  /\ last' = NoResp
  /\ UNCHANGED <<urpVars, wsVars, now, advances, BROWSERS, sessions, clientSessions, activeConnections,
                 browserTokens, tokenToBrowser, urlTokens, nextToken, nextSession,
                 restore, minted, consumed, opened, issued, revoked>>

\* The oldest write in flight fails: syncBrowserToFirebase catches and logs.
MirrorWriteFail ==
  /\ pending # << >>
  /\ ~Head(pending).awaitedByRestore
  /\ pending' = Tail(pending)
  /\ last' = NoResp
  /\ UNCHANGED <<urpVars, wsVars, now, advances, BROWSERS, sessions, clientSessions, activeConnections,
                 browserTokens, tokenToBrowser, urlTokens, nextToken, nextSession,
                 mirror, restore, minted, consumed, opened, issued, revoked>>

\* ------------------------------------------------ restoreStateFromFirebase
\* age < SESSION_TIMEOUT_MS of a saved entry
savedIsLive(saved) ==
  now - Or(saved.lastHeartbeat, saved.lastUsed) < SESSION_TIMEOUT_MS

\* sessions.set(sessionId, record): an existing key keeps its place
sessionsSet(seq, rec) ==
  IF \E k \in 1..Len(seq) : seq[k].sessionId = rec.sessionId
  THEN [k \in 1..Len(seq) |-> IF seq[k].sessionId = rec.sessionId THEN rec ELSE seq[k]]
  ELSE Append(seq, rec)

RECURSIVE sessionsSetAll(_, _, _)
sessionsSetAll(seq, ids, state) ==
  IF ids = << >> THEN seq
  ELSE LET id == Head(ids)
           next == IF state[id].sessionId # null
                   THEN sessionsSet(seq, [sessionId |-> state[id].sessionId,
                                          browserId |-> id,
                                          clientId |-> state[id].clientId])
                   ELSE seq
       IN sessionsSetAll(next, Tail(ids), state)

\* the cookie-token map after restore installed the token of slot id:
\* tokenToBrowser.set(cookieToken, browser.id), nothing deleted
tokenToBrowserAfterRestore(map, id, cookie) == [map EXCEPT ![cookie] = id]

RECURSIVE tokenToBrowserAfterRestoreAll(_, _, _)
tokenToBrowserAfterRestoreAll(map, ids, first) ==
  IF ids = << >> THEN map
  ELSE tokenToBrowserAfterRestoreAll(
         tokenToBrowserAfterRestore(map, Head(ids), first), Tail(ids), first + 1)

\* The for loop of restoreStateFromFirebase from slot `from` on, over the
\* snapshot `state`, up to its next await (the tombstone write of a stale
\* entry, added to the writes in flight `queue`) or its end.
restoreLoop(from, state, queue) ==
  LET stale == { id \in from..NumBrowsers : state[id].inUse /\ ~savedIsLive(state[id]) }
      stop  == IF stale = {} THEN NumBrowsers + 1
               ELSE CHOOSE id \in stale : \A j \in stale : id <= j
      R     == { id \in from..(stop - 1) : state[id].inUse }
      order == InOrder(R)
      rank(id) == Cardinality({ j \in R : j < id })
      token(id) == nextToken + rank(id)
  IN
  /\ nextToken + Cardinality(R) - 1 <= MaxTokens
  /\ BROWSERS' =
       [id \in Slots |->
          IF id \in R
          THEN [inUse |-> TRUE, lastUsed |-> state[id].lastUsed,
                lastHeartbeat |-> state[id].lastHeartbeat,
                sessionId |-> state[id].sessionId, clientId |-> state[id].clientId]
          ELSE BROWSERS[id]]
  /\ sessions' = sessionsSetAll(sessions, order, state)
  /\ clientSessions' =
       [c \in Clients |->
          LET mine == { id \in R : state[id].clientId = c } IN
          IF mine = {} THEN clientSessions[c]
          ELSE CHOOSE id \in mine : \A j \in mine : j <= id]
  /\ browserTokens' = [id \in Slots |-> IF id \in R THEN token(id) ELSE browserTokens[id]]
  /\ tokenToBrowser' = tokenToBrowserAfterRestoreAll(tokenToBrowser, order, nextToken)
  /\ activeConnections' =
       [id \in Slots |-> IF id \in R THEN NewConn ELSE activeConnections[id]]
  /\ nextToken' = nextToken + Cardinality(R)
  /\ issued' = [id \in Slots |-> IF id \in R THEN issued[id] \cup {token(id)} ELSE issued[id]]
  /\ IF stop <= NumBrowsers
     THEN /\ Len(queue) < MaxPending
          /\ pending' = Append(queue,
               [id |-> stop, value |-> Tombstone, awaitedByRestore |-> TRUE])
          /\ restore' = [pc |-> "await", i |-> stop + 1, state |-> state]
     ELSE /\ pending' = queue
          /\ restore' = [pc |-> "done", i |-> NumBrowsers + 1,
                         state |-> [id \in Slots |-> Tombstone]]
  /\ last' = NoResp
  /\ UNCHANGED <<urpVars, wsVars, now, advances, urlTokens, nextSession, minted, consumed, opened, revoked>>

\* once('value') resolves with the mirror as it is now; the loop starts
RestoreFetched ==
  /\ restore.pc = "fetch"
  /\ mirror' = mirror
  /\ restoreLoop(1, mirror, pending)

\* once('value') rejects: the catch logs and restore ends
RestoreFetchFail ==
  /\ restore.pc = "fetch"
  /\ restore' = [pc |-> "done", i |-> NumBrowsers + 1,
                 state |-> [id \in Slots |-> Tombstone]]
  /\ last' = NoResp
  /\ UNCHANGED <<urpVars, wsVars, now, advances, BROWSERS, sessions, clientSessions, activeConnections,
                 browserTokens, tokenToBrowser, urlTokens, nextToken, nextSession,
                 mirror, pending, minted, consumed, opened, issued, revoked>>

\* the awaited tombstone write is the oldest in flight and succeeds: the loop
\* goes on with the next slot
RestoreTombstoneDone ==
  /\ restore.pc = "await"
  /\ pending # << >>
  /\ Head(pending).awaitedByRestore
  /\ mirror' = [mirror EXCEPT ![Head(pending).id] = Head(pending).value]
  /\ restoreLoop(restore.i, restore.state, Tail(pending))

\* the awaited tombstone write fails: the await throws, the catch logs and
\* restore ends with the remaining slots not looked at
RestoreTombstoneFail ==
  /\ restore.pc = "await"
  /\ pending # << >>
  /\ Head(pending).awaitedByRestore
  /\ pending' = Tail(pending)
  /\ restore' = [pc |-> "done", i |-> NumBrowsers + 1,
                 state |-> [id \in Slots |-> Tombstone]]
  /\ last' = NoResp
  /\ UNCHANGED <<urpVars, wsVars, now, advances, BROWSERS, sessions, clientSessions, activeConnections,
                 browserTokens, tokenToBrowser, urlTokens, nextToken, nextSession,
                 mirror, minted, consumed, opened, issued, revoked>>

\* ------------------------------------------------ WebSocket tunnels (VNC)
brokerVars == <<sessions, clientSessions, browserTokens, tokenToBrowser, urlTokens,
                nextToken, nextSession, mirror, pending, restore, minted, consumed,
                opened, issued, revoked>>
audioVars == <<audioSockets, audioProcesses, ffmpeg, audioClock>>

\* trackWsConnect(browserId): the connection entry of the slot
connAfterConnect(conn) ==
  [present |-> TRUE, count |-> (IF conn.present THEN conn.count ELSE 0) + 1,
   lastDisconnect |-> null]

\* trackWsDisconnect(browserId): the connection entry of the slot
connAfterDisconnect(conn) ==
  IF ~conn.present THEN conn
  ELSE LET left == IF conn.count - 1 > 0 THEN conn.count - 1 ELSE 0 IN
       [present |-> TRUE, count |-> left,
        lastDisconnect |-> IF left = 0 THEN now ELSE conn.lastDisconnect]

\* the tunnels of slot id that are connected through to the container
activeWs(id) ==
  Cardinality({ s \in 1..MaxSockets : wsSockets[s].state = "open" /\ wsSockets[s].id = id })

\* history: the slot's last open tunnel closes now
idleFromAfterClose(s) ==
  IF wsSockets[s].state = "open" /\ activeWs(wsSockets[s].id) = 1
  THEN [wsIdleFrom EXCEPT ![wsSockets[s].id] = now]
  ELSE wsIdleFrom

\* upgrade of /browser/<id>/websockify with cookie nebula_session=<cookie>, on
\* the first socket id that is free:
\* 403 and the socket destroyed, or the TLS connection to the container starts
\* (the close handler of the socket is installed before it)
WsUpgrade(s, id, cookie) ==
  /\ wsSockets[s].state = "free"
  /\ \A j \in 1..(s - 1) : wsSockets[j].state # "free"
  /\ wsSockets' =
       IF validateBrowserAccess(cookie, id)
       THEN [wsSockets EXCEPT ![s] = [state |-> "connecting", id |-> id, authorized |-> TRUE]]
       ELSE wsSockets
  /\ last' = NoResp
  /\ UNCHANGED <<now, advances, BROWSERS, activeConnections, brokerVars, urpVars, wsIdleFrom, audioVars>>

\* tls.connect calls back: the tunnel is piped and trackWsConnect runs, also
\* when the client socket (state "orphan") was closed in the meantime: the
\* pipes are then set up on a destroyed socket and the TLS socket stays open
\* (state "leaked": client socket closed, TLS socket open)
WsTunnelConnected(s) ==
  LET id == wsSockets[s].id IN
  /\ wsSockets[s].state \in {"connecting", "orphan"}
  /\ activeConnections' = [activeConnections EXCEPT ![id] = connAfterConnect(@)]
  /\ BROWSERS' = IF BROWSERS[id].inUse THEN [BROWSERS EXCEPT ![id].lastHeartbeat = now]
                 ELSE BROWSERS
  /\ wsSockets' = IF wsSockets[s].state = "connecting"
                  THEN [wsSockets EXCEPT ![s].state = "open"]
                  ELSE [wsSockets EXCEPT ![s].state = "leaked"]
  /\ last' = NoResp
  /\ UNCHANGED <<now, advances, brokerVars, urpVars, wsIdleFrom, audioVars>>

\* the TLS socket errors or closes: the client socket is destroyed if it is
\* not yet, and its close handler runs trackWsDisconnect
WsTunnelClosed(s) ==
  LET id == wsSockets[s].id IN
  /\ wsSockets[s].state \in {"connecting", "open", "orphan", "leaked"}
  /\ activeConnections' =
       IF wsSockets[s].state \in {"orphan", "leaked"} THEN activeConnections
       ELSE [activeConnections EXCEPT ![id] = connAfterDisconnect(@)]
  /\ wsIdleFrom' = idleFromAfterClose(s)
  /\ wsSockets' = [wsSockets EXCEPT ![s] = NoSocket]
  /\ last' = NoResp
  /\ UNCHANGED <<now, advances, BROWSERS, brokerVars, urpVars, audioVars>>

\* the client socket closes: its close handler runs trackWsDisconnect; a TLS
\* connection still being set up is not cancelled. On a piped tunnel a clean
\* close (the client's FIN: the socket emits 'end') makes socket.pipe end the
\* TLS socket; a close by error or destroy emits no 'end', pipe only unpipes
\* and nothing closes the TLS socket.
WsSocketClose(s, clean) ==
  LET id == wsSockets[s].id IN
  /\ wsSockets[s].state \in {"connecting", "open"}
  /\ activeConnections' = [activeConnections EXCEPT ![id] = connAfterDisconnect(@)]
  /\ wsIdleFrom' = idleFromAfterClose(s)
  /\ wsSockets' = IF wsSockets[s].state = "connecting"
                  THEN [wsSockets EXCEPT ![s].state = "orphan"]
                  ELSE IF clean THEN [wsSockets EXCEPT ![s] = NoSocket]
                  ELSE [wsSockets EXCEPT ![s].state = "leaked"]
  /\ last' = NoResp
  /\ UNCHANGED <<now, advances, BROWSERS, brokerVars, urpVars, audioVars>>

\* ------------------------------------------------ the audio side-channel
wsTunnelVars == <<wsSockets, wsIdleFrom>>

\* const existingKey = Array.from(audioProcesses.keys()).find(k =>
\*   k.startsWith(`audio-${browser.id}-`)): its position in the map, or null
existingKey(id) ==
  LET ks == { k \in 1..Len(audioProcesses) : audioProcesses[k].id = id } IN
  IF ks = {} THEN null ELSE CHOOSE k \in ks : \A j \in ks : k <= j

\* audioProcesses.delete(`audio-${id}-${stamp}`)
audioDelete(map, id, stamp) ==
  SelectSeq(map, LAMBDA e : ~(e.id = id /\ e.stamp = stamp))

\* audioProcesses.set(`audio-${id}-${stamp}`, p): an existing key keeps its place
audioSet(map, id, stamp, p) ==
  IF \E k \in 1..Len(map) : map[k].id = id /\ map[k].stamp = stamp
  THEN [k \in 1..Len(map) |->
          IF map[k].id = id /\ map[k].stamp = stamp THEN [map[k] EXCEPT !.proc = p]
          ELSE map[k]]
  ELSE Append(map, [id |-> id, stamp |-> stamp, proc |-> p])

\* proc.kill(signal): the signal is sent, and killed set, if the process runs
killed(procs, p) ==
  IF procs[p].state = "running" THEN [procs EXCEPT ![p].killed = TRUE] ELSE procs

\* upgrade of /browser/<id>/audio with cookie nebula_session=<cookie>, on the
\* first socket id that is free: no
\* access control; the handshake is answered, the process of the first key of
\* the slot is killed and its key deleted, and startFfmpeg is set to run 300 ms
\* later
AudioUpgrade(s, id, cookie) ==
  LET k == existingKey(id) IN
  /\ audioSockets[s].state = "free"
  /\ \A j \in 1..(s - 1) : audioSockets[j].state # "free"
  /\ audioSockets' = [audioSockets EXCEPT ![s] =
        [state |-> "waiting", id |-> id,
         authorized |-> validateBrowserAccess(cookie, id), proc |-> null]]
  /\ IF k # null
     THEN /\ audioProcesses' = audioDelete(audioProcesses, id, audioProcesses[k].stamp)
          /\ ffmpeg' = killed(ffmpeg, audioProcesses[k].proc)
     ELSE UNCHANGED <<audioProcesses, ffmpeg>>
  /\ last' = NoResp
  /\ UNCHANGED <<now, advances, BROWSERS, activeConnections, brokerVars, urpVars, wsTunnelVars,
                 audioClock>>

\* startFfmpeg, 300 ms after the upgrade: nothing if the socket is gone,
\* otherwise the transcoder is spawned and stored under audio-<id>-<Date.now()>;
\* sameMs: Date.now() is the millisecond of the previous key
StartFfmpeg(s, sameMs) ==
  LET id == audioSockets[s].id
      free == { p \in 1..MaxProcs : ffmpeg[p].state = "none" }
      p == CHOOSE q \in free : \A j \in free : q <= j
      stamp == IF sameMs THEN audioClock ELSE audioClock + 1
  IN
  /\ audioSockets[s].state \in {"waiting", "gone"}
  /\ IF audioSockets[s].state = "gone"
     THEN /\ audioSockets' = [audioSockets EXCEPT ![s] = NoAudioSocket]
          /\ UNCHANGED <<audioProcesses, ffmpeg, audioClock>>
     ELSE /\ free # {}
          /\ ffmpeg' = [ffmpeg EXCEPT ![p] =
                [state |-> "running", killed |-> FALSE, id |-> id, stamp |-> stamp,
                 socket |-> s]]
          /\ audioProcesses' = audioSet(audioProcesses, id, stamp, p)
          /\ audioSockets' = [audioSockets EXCEPT ![s].state = "streaming", ![s].proc = p]
          /\ audioClock' = stamp
  /\ last' = NoResp
  /\ UNCHANGED <<now, advances, BROWSERS, activeConnections, brokerVars, urpVars, wsTunnelVars>>

\* the subscriber's socket closes: before startFfmpeg ran nothing is cleaned;
\* after, the close handler deletes the key and sends SIGTERM
AudioSocketClose(s) ==
  LET p == audioSockets[s].proc IN
  /\ audioSockets[s].state \in {"waiting", "streaming"}
  /\ IF audioSockets[s].state = "waiting"
     THEN /\ audioSockets' = [audioSockets EXCEPT ![s].state = "gone"]
          /\ UNCHANGED <<audioProcesses, ffmpeg>>
     ELSE /\ audioSockets' = [audioSockets EXCEPT ![s] = NoAudioSocket]
          /\ audioProcesses' = audioDelete(audioProcesses, ffmpeg[p].id, ffmpeg[p].stamp)
          /\ ffmpeg' = killed(ffmpeg, p)
  /\ last' = NoResp
  /\ UNCHANGED <<now, advances, BROWSERS, activeConnections, brokerVars, urpVars, wsTunnelVars,
                 audioClock>>

\* the subscriber sends a close frame: ffmpeg.kill('SIGTERM')
AudioCloseFrame(s) ==
  /\ audioSockets[s].state = "streaming"
  /\ ffmpeg' = killed(ffmpeg, audioSockets[s].proc)
  /\ last' = NoResp
  /\ UNCHANGED <<now, advances, BROWSERS, activeConnections, brokerVars, urpVars, wsTunnelVars,
                 audioSockets, audioProcesses, audioClock>>

\* the transcoder p exits (killed, or on its own): its close handler deletes
\* its key and destroys its socket if that is still there, whose close handler
\* then runs on the exited process
FfmpegExit(p) ==
  LET s == ffmpeg[p].socket IN
  /\ ffmpeg[p].state = "running"
  /\ ffmpeg' = [ffmpeg EXCEPT ![p].state = "exited"]
  /\ audioProcesses' = audioDelete(audioProcesses, ffmpeg[p].id, ffmpeg[p].stamp)
  /\ audioSockets' =
       IF audioSockets[s].state = "streaming" /\ audioSockets[s].proc = p
       THEN [audioSockets EXCEPT ![s] = NoAudioSocket]
       ELSE audioSockets
  /\ last' = NoResp
  /\ UNCHANGED <<now, advances, BROWSERS, activeConnections, brokerVars, urpVars, wsTunnelVars,
                 audioClock>>

\* ------------------------------------------------ the clock with its timers
\* the slots the reaper would release now
reaperTargets ==
  { id \in Slots :
      /\ BROWSERS[id].inUse
      /\ \/ heartbeatExpired(BROWSERS[id])
         \/ wsPresenceExpired(BROWSERS[id], activeConnections[id]) }

\* the url tokens cleanupUrlTokens would delete now
expiredUrlTokens ==
  { t \in Tokens : urlTokens[t].browserId # null
                   /\ now - urlTokens[t].createdAt > URL_TOKEN_TTL_MS }

\* setInterval(cleanupUrlTokens, 60 * 1000) fires at this time
urlGcDue == (now - BootTime) % URL_GC_PERIOD_MS = 0

\* the timers that fire at this time have run: setInterval(cleanupSessions,
\* 30 * 1000) fires at every step of the punctual clock
timersQuiet ==
  /\ reaperTargets = {}
  /\ urlGcDue => expiredUrlTokens = {}

\* the punctual clock: one reaper period passes
ClockStep ==
  /\ timersQuiet
  /\ now < BootTime + MaxClockSteps * REAPER_PERIOD_MS
  /\ now' = now + REAPER_PERIOD_MS
  /\ last' = NoResp
  /\ UNCHANGED <<advances, BROWSERS, activeConnections, brokerVars, urpVars, wsVars>>

Next ==
  \/ \E ticks \in 1..2 : TimeAdvance(ticks)
  \/ CleanupSessions
  \/ \E c \in Clients : RequestBrowser(c)
  \/ \E c \in Clients : CheckSession(c)
  \/ \E c \in Clients : ReleaseByClient(c)
  \/ \E id \in Slots : ReleaseByBrowser(id)
  \/ \E id \in Slots, sync \in BOOLEAN : HeartbeatByBrowser(id, sync)
  \/ \E k \in 1..Len(sessions) : HeartbeatBySession(k)
  \/ HttpBrowserDenied
  \/ \E id \in Slots, cookie \in Presentable, q \in Presentable :
        HttpBrowserByCookie(id, cookie, q)
  \/ \E id \in Slots, cookie \in Presentable, q \in Presentable, up \in Upstream :
        HttpBrowserByUrlToken(id, cookie, q, up)
  \/ CleanupUrlTokens
  \/ MirrorWriteDone
  \/ MirrorWriteFail
  \/ RestoreFetched
  \/ RestoreFetchFail
  \/ RestoreTombstoneDone
  \/ RestoreTombstoneFail


Spec == Init /\ [][Next]_vars

\* The broker with the tunnels of its WebSocket clients: assignment, release,
\* the clock, the reaper, the mirror and the start-up restore, and the
\* upgrades of /browser/<N>/websockify.
NextWs ==
  \/ \E ticks \in 1..2 : TimeAdvance(ticks)
  \/ \E c \in Clients : RequestBrowser(c)
  \/ CleanupSessions
  \/ \E c \in Clients : ReleaseByClient(c)
  \/ MirrorWriteDone
  \/ RestoreFetched
  \/ RestoreFetchFail
  \/ RestoreTombstoneDone
  \/ \E s \in 1..MaxSockets, id \in Slots, cookie \in Presentable : WsUpgrade(s, id, cookie)
  \/ \E s \in 1..MaxSockets : WsTunnelConnected(s)
  \/ \E s \in 1..MaxSockets : WsTunnelClosed(s)
  \/ \E s \in 1..MaxSockets, clean \in BOOLEAN : WsSocketClose(s, clean)

SpecWs == Init /\ [][NextWs]_vars

\* The broker under a punctual clock: time passes one reaper period at a
\* time, the timers due at a time run before any request is served at that
\* time, and the start-up restore is still waiting for its snapshot.
NextClock ==
  \/ ClockStep
  \/ CleanupSessions
  \/ urlGcDue /\ CleanupUrlTokens
  \/ timersQuiet /\ \E c \in Clients : RequestBrowser(c)
  \/ timersQuiet /\ \E id \in Slots : HeartbeatByBrowser(id, FALSE)
  \/ timersQuiet /\ \E s \in 1..MaxSockets, id \in Slots, cookie \in Presentable :
                      WsUpgrade(s, id, cookie)
  \/ timersQuiet /\ \E s \in 1..MaxSockets : WsTunnelConnected(s)
  \/ timersQuiet /\ \E id \in Slots, cookie \in Presentable, q \in Presentable,
                       up \in Upstream : HttpBrowserByUrlToken(id, cookie, q, up)
  \/ timersQuiet /\ MirrorWriteDone

\* the first boot: nothing was mirrored yet
InitClock == Init /\ mirror = [id \in Slots |-> Tombstone]

SpecClock == InitClock /\ [][NextClock]_vars

\* The start-up restore over a mirror with live and stale entries, while
\* requests are served and mirror writes succeed or fail.
InitRestore == InitProcess /\ mirror \in AgedSavedStates /\ InitProxy

NextRestore ==
  \/ \E ticks \in 1..2 : TimeAdvance(ticks)
  \/ CleanupSessions
  \/ \E c \in Clients : RequestBrowser(c)
  \/ \E c \in Clients : ReleaseByClient(c)
  \/ MirrorWriteDone
  \/ MirrorWriteFail
  \/ RestoreFetched
  \/ RestoreFetchFail
  \/ RestoreTombstoneDone
  \/ RestoreTombstoneFail

SpecRestore == InitRestore /\ [][NextRestore]_vars

\* The tunnels on their own, for what eventually happens to them: sessions
\* are assigned, tunnels are opened and closed from either side. A TLS
\* connection attempt always ends (it connects, or it errors or times out);
\* nothing makes a connected container close its side.
NextTunnel ==
  \/ \E c \in Clients : RequestBrowser(c)
  \/ MirrorWriteDone
  \/ \E s \in 1..MaxSockets, id \in Slots, cookie \in Presentable : WsUpgrade(s, id, cookie)
  \/ \E s \in 1..MaxSockets : WsTunnelConnected(s)
  \/ \E s \in 1..MaxSockets : WsTunnelClosed(s)
  \/ \E s \in 1..MaxSockets, clean \in BOOLEAN : WsSocketClose(s, clean)

\* the TLS connection attempt of tunnel s ends
TlsConnectEnds(s) ==
  /\ wsSockets[s].state \in {"connecting", "orphan"}
  /\ WsTunnelConnected(s) \/ WsTunnelClosed(s)

SpecTunnel ==
  Init /\ [][NextTunnel]_vars /\ \A s \in 1..MaxSockets : WF_vars(TlsConnectEnds(s))

\* The URL-rewriting proxy on its own: requests are served one after the
\* other, each answered at once or after its upstream fetch.
SpecUrp == InitClock /\ [][NextUrp]_vars

\* ... where every upstream request is answered or fails
SpecUrpLive ==
  SpecUrp /\ WF_vars(\/ \E status \in {301, 302, 303, 307, 308}, location \in Urls :
                          FetchRedirected(status, location)
                     \/ \E status \in {200, 403}, upstream \in UpstreamHeaderSets :
                          FetchAnswered(status, upstream)
                     \/ FetchFailed)

\* The injected scripts on one page: the scripts run (again when the page
\* carries them twice), scripts of the site wrap fetch, and calls are made.
SpecShim == InitClock /\ [][NextShim]_vars

\* The server-side rewriter applied to a body of the site, then to its own
\* output.
InitRewrite ==
  /\ InitProcess
  /\ mirror = [id \in Slots |-> Tombstone]
  /\ InitHandler
  /\ html \in SiteBodies
  /\ InitSide

SpecRewrite == InitRewrite /\ [][RewriteUrls]_vars

\* encodeUrl then decodeUrl on an absolute URL.
InitCodec ==
  /\ InitProcess
  /\ mirror = [id \in Slots |-> Tombstone]
  /\ InitHandler
  /\ html = NoHtml
  /\ \E url \in AbsoluteUrls : codec = [NoCodec EXCEPT !.pc = "url", !.url = url]
  /\ InitPw

SpecCodec == InitCodec /\ [][NextCodec]_vars

\* The Playwright session server: sessions are created, used and closed while
\* the clock runs and the cleanup timer fires every minute.
SpecPw == InitClock /\ [][NextPw]_vars

\* The audio side-channel on its own: its handlers read the slot table only
\* to find the container of the slot and touch nothing of the broker.
NextAudio ==
  \/ \E s \in 1..MaxAudio, id \in Slots, cookie \in Presentable : AudioUpgrade(s, id, cookie)
  \/ \E s \in 1..MaxAudio, sameMs \in BOOLEAN : StartFfmpeg(s, sameMs)
  \/ \E s \in 1..MaxAudio : AudioSocketClose(s)
  \/ \E s \in 1..MaxAudio : AudioCloseFrame(s)
  \/ \E p \in 1..MaxProcs : FfmpegExit(p)

SpecAudio == Init /\ [][NextAudio]_vars

\* ======================================================================
\* Properties
\* ======================================================================

\* a session record references the slot
hasSessionRecord(id) == \E k \in 1..Len(sessions) : sessions[k].browserId = id

\* the cookie tokens the access check accepts for the slot
acceptedCookies(id) == { t \in Tokens : validateBrowserAccess(t, id) }

\* C1: in every reachable state no two in-use slots carry the same client_id.
C1_OneSlotPerClient ==
  \A i, j \in Slots :
    (i # j /\ BROWSERS[i].inUse /\ BROWSERS[j].inUse)
      => BROWSERS[i].clientId # BROWSERS[j].clientId

\* C2: no step (request-browser, reaper, restore, ...) gives a slot that is in
\* use by one client to another client: a slot in use before and after a step
\* has the same client.
C2_NoSecondClientWhileInUse ==
  [][ \A id \in Slots :
        (BROWSERS[id].inUse /\ BROWSERS'[id].inUse)
          => BROWSERS'[id].clientId = BROWSERS[id].clientId ]_vars

\* the request carries a credential for slot id: a session cookie whose token
\* maps to id now, or a url token minted for id and not consumed
carriesCredential(id, cookie, q) ==
  \/ cookie # null /\ tokenToBrowser[cookie] = id
  \/ q # null /\ minted[q] = id /\ q \notin consumed

C4_UrlTokenOnlyOnce ==
  \A q \in consumed, id \in Slots, cookie \in {null} \cup Tokens, up \in Upstream :
    ~validateBrowserAccess(cookie, id) => httpAnswer(id, cookie, q, up).status = 403

\* C4 witness: a url token was consumed and its session is still alive (the
\* slot is in use and its cookie token is the one the url token stood for).
C4_Witness ==
  \E q \in consumed :
    /\ last.op = "http" /\ last.urlToken = q
    /\ BROWSERS[minted[q]].inUse
    /\ browserTokens[minted[q]] # null
    /\ httpAnswer(minted[q], null, q, "ok").status = 403

\* C5: once a browserUrl was opened with success (through its url token or
\* through a cookie that was already valid), a later request that presents the
\* same url token without a valid cookie is denied.
C5_SharedUrlDenied ==
  \A q \in opened, cookie \in {null} \cup Tokens :
    ~validateBrowserAccess(cookie, minted[q])
      => accessDecision(minted[q], cookie, q) = "denied"

\* C6: after a release of a slot, no cookie token that a session of the
\* released slot held is accepted for any slot.
C6_ReleasedCookieDenied ==
  \A t \in revoked, id \in Slots : ~validateBrowserAccess(t, id)

\* C7: at every instant the access check accepts at most one cookie token per
\* slot (so installing a new one ends every earlier one).
C7_OneCookiePerSlot ==
  \A id \in Slots : Cardinality(acceptedCookies(id)) <= 1

\* C8: every answer to a request that consumed a url token carries the partner
\* cookie token in its Set-Cookie.
C8_ConsumeSetsCookie ==
  (last.op = "http" /\ last.urlToken # null)
    => (last.setCookie # null /\ last.setCookie = browserTokens[last.browserId])

\* C9: a slot is in use if and only if at least one session record references
\* it (the first equivalence of the claim; the second one is with the mirror).
C9_InUseIffSessionRecord ==
  \A id \in Slots : BROWSERS[id].inUse <=> hasSessionRecord(id)

\* C10: right after a release of slot s no session record, cookie-token
\* mapping, url token or client mapping references s, its session id, client
\* id and liveness fields are cleared, and an inUse=false write for s is issued.
C10_ReleaseClearsEverything ==
  \A id \in last.released :
    /\ ~hasSessionRecord(id)
    /\ browserTokens[id] = null
    /\ \A t \in Tokens : tokenToBrowser[t] # id
    /\ \A t \in Tokens : urlTokens[t].browserId # id
    /\ \A c \in Clients : clientSessions[c] # id
    /\ BROWSERS[id].sessionId = null
    /\ BROWSERS[id].clientId = NoClient
    /\ BROWSERS[id].lastHeartbeat = null
    /\ ~activeConnections[id].present
    /\ \E k \in 1..Len(pending) : pending[k].id = id /\ ~pending[k].value.inUse


C12_UpgradeNeedsCookie ==
  /\ \A s \in 1..MaxSockets :
       wsSockets[s].state \in {"connecting", "open"} => wsSockets[s].authorized
  /\ \A s \in 1..MaxAudio :
       audioSockets[s].state = "streaming" => audioSockets[s].authorized

\* the heartbeat of slot id is older than the session timeout
heartbeatOlder(id) ==
  /\ BROWSERS[id].lastHeartbeat # null
  /\ now - BROWSERS[id].lastHeartbeat > SESSION_TIMEOUT_MS

\* C13: a run of the reaper releases every in-use slot whose last heartbeat
\* (heartbeat, WebSocket connect or request-browser refresh) is older than the
\* session timeout; after the run no cookie token and no url token of the slot
\* is left, an inUse=false write for the slot is in flight, and a request with
\* any cookie token the session was given is answered 403.
C13_ReaperReleasesExpired ==
  [][ CleanupSessions =>
        \A id \in Slots :
          (BROWSERS[id].inUse /\ heartbeatOlder(id)) =>
            /\ ~BROWSERS'[id].inUse
            /\ browserTokens'[id] = null
            /\ \A t \in Tokens : tokenToBrowser'[t] # id
            /\ \A t \in Tokens : urlTokens'[t].browserId # id
            /\ \E k \in 1..Len(pending') : pending'[k].id = id /\ ~pending'[k].value.inUse
            /\ \A t \in issued[id], up \in Upstream :
                 httpAnswer(id, t, null, up)'.status = 403 ]_vars

\* C15: whenever a request can be served (the timers due at that time have
\* run), the access check accepts no url token that was minted more than 5
\* minutes before.
C15_UrlTokenTtl ==
  timersQuiet =>
    \A q \in Tokens, id \in Slots, cookie \in {null} \cup Tokens :
      (urlTokens[q].browserId # null /\ now - urlTokens[q].createdAt > URL_TOKEN_TTL_MS)
        => accessDecision(id, cookie, q) # "url"

\* the session of client c is live: c holds a slot whose last heartbeat is
\* younger than the session timeout
liveSessionOf(c) ==
  LET id == findBrowserByClientId(c) IN
  /\ id # null
  /\ now - Or(BROWSERS[id].lastHeartbeat, BROWSERS[id].lastUsed) < SESSION_TIMEOUT_MS

\* C16: a request-browser or check-session call of a client whose session is
\* live leaves the cookie token of the slot as it was and adds exactly one
\* url token, bound to the slot and to that cookie token; every other url
\* token stays as it was.
C16_LiveSessionKeepsCookie ==
  [][\A c \in Clients :
       (liveSessionOf(c) /\ (RequestBrowser(c) \/ CheckSession(c))) =>
          LET id == findBrowserByClientId(c) IN
          /\ browserTokens[id] # null
          /\ browserTokens' = browserTokens
          /\ tokenToBrowser' = tokenToBrowser
          /\ \E u \in Tokens :
               /\ urlTokens[u].browserId = null
               /\ urlTokens'[u] = [browserId |-> id, cookieToken |-> browserTokens[id],
                                   createdAt |-> now]
               /\ \A t \in Tokens \ {u} : urlTokens'[t] = urlTokens[t]
               /\ last'.urlToken = u]_vars

\* a second request-browser of the same client answered with a second url
\* token of the same slot and cookie token
C16_Witness ==
  /\ last.op = "request-browser"
  /\ last.status = 200
  /\ \E u \in Tokens \ {last.urlToken} :
       /\ urlTokens[u].browserId = last.browserId
       /\ urlTokens[u].cookieToken = urlTokens[last.urlToken].cookieToken
       /\ browserTokens[last.browserId] = urlTokens[u].cookieToken

\* C17: a request-browser call of a client without a session is answered 503
\* all_browsers_in_use exactly when every slot is in use at that moment; the
\* answer carries inUse, total and retryAfterSeconds, and the failed call
\* assigns no slot, records no session and mints no token.
C17_BusyIffAllInUse ==
  [][\A c \in Clients :
       (findBrowserByClientId(c) = null /\ RequestBrowser(c)) =>
          /\ (last'.status = 503) <=> (\A id \in Slots : BROWSERS[id].inUse)
          /\ (last'.status = 503) =>
               /\ last'.body = [error |-> "all_browsers_in_use", inUse |-> NumBrowsers,
                                total |-> NumBrowsers, retryAfterSeconds |-> 30]
               /\ UNCHANGED <<BROWSERS, sessions, activeConnections, browserTokens,
                              tokenToBrowser, urlTokens, pending, mirror>>
          /\ (last'.status # 503) =>
               /\ last'.status = 200
               /\ last'.browserId = findAvailableBrowser
               /\ BROWSERS'[last'.browserId].clientId = c]_vars

\* request-browser was refused while every slot was in use
C17_Witness ==
  /\ last.op = "request-browser"
  /\ last.status = 503
  /\ \A id \in Slots : BROWSERS[id].inUse

\* the snapshot the restore loop works on
restoreSnapshot == IF restore.pc = "fetch" THEN mirror ELSE restore.state

\* restoreStateFromFirebase runs to its end in this step, no mirror operation
\* having failed
restoreCompletes ==
  /\ restore.pc # "done"
  /\ restore'.pc = "done"
  /\ RestoreFetched \/ RestoreTombstoneDone

\* C18: when restore completes over a populated mirror, a slot is in use exactly when its mirrored
\* entry had inUse = true with a lastHeartbeat within the session timeout (at
\* the latest when restore ends for "must", at boot for "may"); such a slot
\* has a cookie token minted since the restart, and no token of before the
\* restart (a value this process never generated) is accepted.
C18_RestoreMatchesMirror ==
  [][(restoreCompletes /\ \E k \in Slots : restoreSnapshot[k].inUse) =>
       \A id \in Slots :
         LET saved == restoreSnapshot[id] IN
         /\ (saved.inUse /\ now - saved.lastHeartbeat < SESSION_TIMEOUT_MS)
              => BROWSERS'[id].inUse
         /\ BROWSERS'[id].inUse
              => (saved.inUse /\ BootTime - saved.lastHeartbeat < SESSION_TIMEOUT_MS)
         /\ BROWSERS'[id].inUse
              => /\ browserTokens'[id] # null
                 /\ tokenToBrowser'[browserTokens'[id]] = id
         /\ \A t \in Tokens : t >= nextToken' =>
              (accessDecision(id, t, t))' = "denied"]_vars

\* the slots the restore loop marks in use when it goes on from slot `from`
\* over the snapshot `state`, up to its next await or its end
restoredSlots(from, state) ==
  LET stale == { id \in from..NumBrowsers : state[id].inUse /\ ~savedIsLive(state[id]) }
      stop  == IF stale = {} THEN NumBrowsers + 1
               ELSE CHOOSE id \in stale : \A j \in stale : id <= j
  IN { id \in from..(stop - 1) : state[id].inUse }

\* the slot, session and token state of the process
inProcess == <<BROWSERS, sessions, clientSessions, activeConnections, browserTokens,
               tokenToBrowser, urlTokens>>

\* C19: a mirror write that fails leaves the slot, session and token state of
\* the process as the same write leaves it when it succeeds: a failed
\* syncBrowserToFirebase changes nothing, and after a failed tombstone write
\* of restore every slot the loop would have gone on to restore is in use
\* for the client of its mirrored entry.
C19_MirrorFailureChangesNothing ==
  [][/\ MirrorWriteFail => UNCHANGED inProcess
     /\ RestoreTombstoneFail =>
          \A id \in restoredSlots(restore.i, restore.state) :
            /\ BROWSERS'[id].inUse
            /\ BROWSERS'[id].clientId = restore.state[id].clientId]_vars

\* the client socket of tunnel s is closed while its TLS socket to the
\* container is connecting or connected
clientGoneUpstreamLive(s) == wsSockets[s].state \in {"orphan", "leaked"}

\* C21: when one socket of a tunnel closes, the other is eventually closed.
\* The close of the TLS socket destroys the client socket in the same step
\* (WsTunnelClosed), so what is left to hold is the other direction: a tunnel
\* whose client socket is closed does not keep its TLS socket for ever.
C21_CloseReachesOtherSide ==
  \A s \in 1..MaxSockets : clientGoneUpstreamLive(s) ~> ~clientGoneUpstreamLive(s)

\* C22: a request that carries a __cpo parameter is handled by the proxy
\* branch: it is answered 400 when the parameter does not decode to an
\* absolute http(s) URL and is forwarded upstream otherwise; it is never
\* handled by the relative fall-through or answered 404.
C22_CpoTakesProxyBranch ==
  (proxy.req # NoRequest /\ proxy.req.cpo.kind # "absent") =>
     /\ proxy.branch = "proxy"
     /\ decodeUrl(proxy.req.cpo) = NoUrl => (proxy.pc = "done" /\ proxy.res.status = 400)
     /\ decodeUrl(proxy.req.cpo) # NoUrl => proxy.pc = "fetching"

\* C23: the proxy issues no upstream fetch to itself: the request the handler
\* hands to fetchUrl (before any redirect) never targets localhost or
\* 127.0.0.1 on the port of the proxy, on the proxy branch and on the
\* relative fall-through.
C23_NoFetchOfSelf ==
  (proxy.pc = "fetching" /\ proxy.fetch.via = 0) => ~isSelf(proxy.fetch.url)

\* C24: every upstream fetch comes to an end: the request that is being
\* fetched is eventually answered, whatever redirects the upstream sends.
C24_FetchTerminates ==
  (proxy.pc = "fetching") ~> (proxy.pc = "done")

\* C25: a request re-issued after a 301, 302 or 303 is a GET without body; a
\* request re-issued after a 307 or 308 has the method and body of the
\* original request.
C25_RedirectMethod ==
  proxy.pc = "fetching" =>
     /\ proxy.fetch.via \in {301, 302, 303} =>
          (proxy.req.method = "POST" => (proxy.fetch.method = "GET" /\ ~proxy.fetch.body))
     /\ proxy.fetch.via \in {307, 308} =>
          (proxy.fetch.method = proxy.req.method /\ proxy.fetch.body = (proxy.req.method = "POST"))

\* C26: the relayed answer carries none of the stripped security headers,
\* on the proxy branch and on the relative fall-through.
C26_SecurityHeadersStripped ==
  proxy.pc = "done" => proxy.res.headers \cap StrippedHeaders = {}

\* an upstream answer that carried every one of these headers, and a csrf
\* token, was relayed by the relative fall-through with the token
C26_Witness ==
  /\ proxy.pc = "done"
  /\ proxy.branch = "relative"
  /\ StrippedHeaders \subseteq proxy.res.upstream
  /\ "x-csrf-token" \in proxy.res.headers

\* C27: a call through the injected scripts (fetch or XMLHttpRequest) with a
\* method other than GET, given in the call itself, whose first answer is 403 with a fresh x-csrf-token
\* and no challenge marker is sent again exactly once: two sends in all,
\* whatever the answer to the second.
C27_CsrfRetryExactlyOnce ==
  ( /\ page.main = 1
    /\ page.early <= 1
    /\ page.call.api \in {"fetch", "xhr"}
    /\ page.call.method # "GET"
    /\ page.call.viaInit
    /\ page.call.answers[1] = "403T" )
  => page.call.sends = 2

\* C28: once the early script is installed, after any assignment to
\* window.fetch the visible fetch is the proxy wrapper over the function
\* assigned last, and ends in the browser's native fetch.
C28_SetterRewrapsLastAssigned ==
  (page.early >= 1 /\ page.assigned # << >>)
  => /\ page.fetch.value = <<"proxy">> \o page.assigned
     /\ page.fetch.value[Len(page.fetch.value)] = "native"

\* C29: running the injected scripts again changes nothing: every function
\* carries one wrapper of each script at most, and the fetch captured as
\* true native is the browser's native fetch.
C29_ReinjectionIsNoOp ==
  /\ page.early >= 1 => page.trueNative = NativeFn
  /\ layers(page.fetch.value, "proxy") <= 1
  /\ layers(page.fetch.value, "main") <= 1
  /\ layers(page.xhrOpen.value, "earlyOpen") <= 1
  /\ layers(page.xhrOpen.value, "mainOpen") <= 1
  /\ layers(page.xhrSend, "mainSend") <= 1

\* C30: the rewriter applied to its own output changes nothing: a URL that
\* carried __cpo= before a pass is the same after the pass.
C30_RewriteIsIdempotent ==
  \A k \in 1..Len(html.prev) :
    Len(html.prev[k].cpo) > 0 => html.body[k] = html.prev[k]

\* C31: for every absolute URL with scheme http or https,
\* decodeUrl(encodeUrl(url)) is that URL.
C31_DecodeInvertsEncode ==
  codec.pc = "decoded" => (codec.ok /\ codec.decoded = codec.url)

\* C32: when the upstream request of the URL-rewriting proxy fails (timeout,
\* connect or TLS failure), the client is answered 502, in the __cpo branch
\* and in the relative fall-through alike.
C32_UpstreamFailureIs502 ==
  [][FetchFailed => proxy'.res.status = 502]_vars

\* C33: no request ends the process or stays without an answer: a request
\* whose handling throws is answered 500 and later requests are served.
C33_EveryRequestAnswered ==
  proxy.pc \notin {"crashed", "unanswered"}

\* C34: every rewritten document carries the early script, before the main
\* script and before every script of the site, with or without a head tag.
C34_EarlyShimFirst ==
  html.passes >= 1 =>
    /\ positions(html.doc, {"early"}) # {}
    /\ \A k \in positions(html.doc, {"main", "script"}) :
         firstOf(html.doc, {"early"}) < k

staleSession(k) ==
  sessions[k].sessionId > 0 /\ ~BROWSERS[sessions[k].browserId].inUse

\* C36: a heartbeat by a session id whose slot was released since changes
\* the last heartbeat of no slot, whether the slot is free or was assigned
\* to another client.
C36_StaleHeartbeatChangesNothing ==
  [][\A k \in 1..Len(sessions) :
       (staleSession(k) /\ HeartbeatBySession(k)) => BROWSERS' = BROWSERS]_vars

\* C37: no tunnel relays to the container of a slot that was released: an
\* open tunnel leads to a slot that is in use.
C37_NoTunnelIntoReleasedSlot ==
  \A s \in 1..MaxSockets :
    wsSockets[s].state = "open" => BROWSERS[wsSockets[s].id].inUse

\* the open client tunnels of a slot
openTunnels(id) ==
  { s \in 1..MaxSockets : wsSockets[s].state = "open" /\ wsSockets[s].id = id }

\* C38: for every slot in use, the connection count is the number of open
\* client tunnels of the slot (no entry counts as zero); it is never
\* negative.
C38_CountIsOpenTunnels ==
  \A id \in Slots :
    /\ activeConnections[id].count >= 0
    /\ BROWSERS[id].inUse =>
         (IF activeConnections[id].present THEN activeConnections[id].count ELSE 0)
           = Cardinality(openTunnels(id))

\* C39: the two cookie-token maps are inverses of each other (token t maps
\* to slot id exactly when the token of id is t) and have entries for slots
\* in use only.
C39_TokenMapsInverse ==
  /\ \A t \in Tokens, id \in Slots : (tokenToBrowser[t] = id) <=> (browserTokens[id] = t)
  /\ \A id \in Slots : browserTokens[id] # null => BROWSERS[id].inUse
  /\ \A t \in Tokens : tokenToBrowser[t] # null => BROWSERS[tokenToBrowser[t]].inUse

\* C40: every url token outstanding names a slot in use, and the cookie
\* token stored with it is the current cookie token of that slot.
C40_UrlTokensCurrent ==
  \A t \in Tokens :
    urlTokens[t] # NoUrlToken =>
      /\ BROWSERS[urlTokens[t].browserId].inUse
      /\ urlTokens[t].cookieToken = browserTokens[urlTokens[t].browserId]

\* the larger of two times
Later(a, b) == IF a >= b THEN a ELSE b

\* since when the process has seen slot id without an open tunnel: since it
\* booted, since the slot was assigned, or since its last open tunnel closed
idleSince(id) == Later(BootTime, Later(BROWSERS[id].lastUsed, wsIdleFrom[id]))

\* C14: a run of the reaper releases an in-use slot only if its last heartbeat
\* is older than the session timeout, or if it has had no open tunnel for more
\* than the WebSocket-presence timeout and was assigned more than 60 s ago.
C14_ReaperOnlyWhenExpired ==
  [][ CleanupSessions =>
        \A id \in Slots :
          (BROWSERS[id].inUse /\ ~BROWSERS'[id].inUse) =>
            \/ /\ BROWSERS[id].lastHeartbeat # null
               /\ now - BROWSERS[id].lastHeartbeat > SESSION_TIMEOUT_MS
            \/ /\ activeWs(id) = 0
               /\ now - idleSince(id) > WS_PRESENCE_TIMEOUT_MS
               /\ now - BROWSERS[id].lastUsed > WS_GRACE_MS ]_vars

\* the transcoders of slot id that run and were sent no signal
liveTranscoders(id) ==
  { p \in 1..MaxProcs : ffmpeg[p].state = "running" /\ ~ffmpeg[p].killed /\ ffmpeg[p].id = id }

\* C20: at every instant at most one audio transcoder runs per slot (a
\* transcoder that was sent a kill signal is not counted).
C20_OneTranscoderPerSlot ==
  \A id \in Slots : Cardinality(liveTranscoders(id)) <= 1

====
